---- MODULE Spec2Model ----
(***************************************************************************)
(* A model of tholonia/rngsources: the hexagram caster (iching_unified.py), *)
(* the fetch helpers (fetchers.py), the aggregation engine (assembler.py)   *)
(* the legacy translator (backward_compat.py) and the bit-symbol extractor  *)
(* (extract_random_bytes.py).                                               *)
(*                                                                          *)
(* Python values are modelled as follows.  bytes and lists are sequences;   *)
(* a str is a sequence of one-character strings; a dict is a record; an     *)
(* exception raised by a function is a result record whose state is         *)
(* "raised".  Sequences are 1-based: Python's x[i] is x[i + 1] here.        *)
(***************************************************************************)
EXTENDS Integers, Sequences, FiniteSets, TLC

VARIABLES
    call,     \* the invocation under way or last made: [fn, arg]
    ret,      \* its outcome: [state |-> "pending" | "returned" | "raised", ...]
    rng,      \* the state of the process-wide generator of Python's random module
    baseline, \* an earlier call of the Seeded Selector and its result, for comparison
    \* the local variables of build_unified_response
    pc,              \* the stage the call has reached
    sources,         \* list of Source
    errors,          \* list of error strings, each << prefix, message >>
    all_bytes,       \* bytearray
    lfd_data_bytes,  \* Optional[bytes]
    anu_fallback,    \* bool
    asm_seed,        \* Optional[int]: the local variable seed
    derived,         \* Derived: [iching, egg], each Optional
    log,             \* what the call did so far: the outcomes of its fetches, in order
    \* the local variables of main() of extract_random_bytes.py, and its effects
    ext_pc,          \* the statement main() has reached
    buf,             \* the input buffer, as read and then as decoded
    sym12,           \* the symbol stream
    packed,          \* the packed bytes
    extracted,       \* the SHA3-extracted bytes
    files,           \* the output files written so far: path :> content
    exit_status      \* Optional[int]: the exit status of the process

extVars == <<ext_pc, buf, sym12, packed, extracted, files, exit_status>>

asmVars == <<pc, sources, errors, all_bytes, lfd_data_bytes, anu_fallback, asm_seed, derived, log>>

vars == <<call, ret, rng, baseline, asmVars, extVars>>

\* ------------------------------------------------------------------------
\* Bounds of the model
\* ------------------------------------------------------------------------

\* cast_iching_hexagram reads random_bytes[0..5]; inputs carry up to this
\* many further bytes, which it must ignore.
MaxExtraBytes == 1

\* compute_monobit_ratio samples the first 1024 bytes; the longest buffers
\* run this many bytes past the sample.
MaxOverrun == 2

\* The largest anu_len build_unified_response is called with.
MaxAnuLen == 10

\* The number of states of the stand-in for the generator behind
\* random.seed / random.randint.
RngModulus == 8

\* ------------------------------------------------------------------------
\* iching_unified.py
\* ------------------------------------------------------------------------

\* The table with one entry mistyped: index 3 holds 23 again instead of 20.
KING_WEN_SEQUENCE_Mistyped ==
    << 2, 23,  8, 23, 16, 35, 45, 12,
      15, 52, 39, 53, 62, 56, 31, 33,
       7,  4, 29, 59, 40, 64, 47,  6,
      46, 18, 48, 57, 32, 50, 28, 44,
      24, 27,  3, 42, 51, 21, 17, 25,
      36, 22, 63, 37, 55, 30, 49, 13,
      19, 41, 60, 61, 54, 38, 58, 10,
      11, 26,  5,  9, 34, 14, 43,  1 >>

KING_WEN_SEQUENCE ==
    << 2, 23,  8, 20, 16, 35, 45, 12,
      15, 52, 39, 53, 62, 56, 31, 33,
       7,  4, 29, 59, 40, 64, 47,  6,
      46, 18, 48, 57, 32, 50, 28, 44,
      24, 27,  3, 42, 51, 21, 17, 25,
      36, 22, 63, 37, 55, 30, 49, 13,
      19, 41, 60, 61, 54, 38, 58, 10,
      11, 26,  5,  9, 34, 14, 43,  1 >>

\* The first boundary taken inclusively: normalized <= 1/16.
cast_yarrow_line_InclusiveBoundary(random_value) ==
    LET n == random_value % 256 IN
    IF 16 * n <= 256 * 1 THEN 6
    ELSE IF 16 * n < 256 * 6 THEN 7
    ELSE IF 16 * n < 256 * 13 THEN 8
    ELSE 9

\* normalized = (random_value % 256) / 256.0 is compared with 1/16, 6/16 and
\* 13/16.  All four are dyadic rationals, exact in binary floating point, so
\* normalized < k/16 is the integer comparison 16 * (random_value % 256) < 256 * k.
cast_yarrow_line(random_value) ==
    LET n == random_value % 256 IN
    IF 16 * n < 256 * 1 THEN 6
    ELSE IF 16 * n < 256 * 6 THEN 7
    ELSE IF 16 * n < 256 * 13 THEN 8
    ELSE 9

\* 1 << i
RECURSIVE Shl1(_)
Shl1(i) == IF i = 0 THEN 1 ELSE 2 * Shl1(i - 1)

\* The loop of lines_to_binary over enumerate(lines)[0 .. k-1].  The bits
\* 1 << i are distinct, so binary |= (1 << i) adds them.
RECURSIVE LinesToBinaryUpTo(_, _)
LinesToBinaryUpTo(lines, k) ==
    IF k = 0 THEN 0
    ELSE LinesToBinaryUpTo(lines, k - 1)
         + (IF lines[k] \in {7, 9} THEN Shl1(k - 1) ELSE 0)

\* lines_to_binary with line i at bit 5-i
lines_to_binary_TopLineLowestBit(lines) ==
    LinesToBinaryUpTo([k \in 1..Len(lines) |-> lines[Len(lines) + 1 - k]], Len(lines))

lines_to_binary(lines) == LinesToBinaryUpTo(lines, Len(lines))

\* format(n, 'b'): the binary digits of n >= 0, most significant first
RECURSIVE BinDigits(_)
BinDigits(n) ==
    IF n < 2 THEN << (IF n = 1 THEN "1" ELSE "0") >>
    ELSE BinDigits(n \div 2) \o << (IF n % 2 = 1 THEN "1" ELSE "0") >>

RECURSIVE ZeroPad(_, _)
ZeroPad(s, width) == IF Len(s) >= width THEN s ELSE ZeroPad(<<"0">> \o s, width)

\* format(binary, '06b')
binary_to_string(binary) == ZeroPad(BinDigits(binary), 6)

\* KING_WEN_SEQUENCE[binary]; an index outside the list raises IndexError
lines_to_hexagram_number(lines) ==
    LET binary == lines_to_binary(lines) IN
    IF binary + 1 \in DOMAIN KING_WEN_SEQUENCE
    THEN [state |-> "returned", value |-> KING_WEN_SEQUENCE[binary + 1]]
    ELSE [state |-> "raised", exc |-> "IndexError"]

\* Every Yang line flipped, not only the old Yang: line in (7, 9) -> 8.
transform_changing_lines_FlipsYoungYang(lines) ==
    [i \in DOMAIN lines |->
        IF lines[i] = 6 THEN 7
        ELSE IF lines[i] \in {7, 9} THEN 8
        ELSE lines[i]]

transform_changing_lines(lines) ==
    [i \in DOMAIN lines |->
        IF lines[i] = 6 THEN 7
        ELSE IF lines[i] = 9 THEN 8
        ELSE lines[i]]

\* any(line in (6, 9) for line in lines)
HasChangingLines(lines) == \E i \in DOMAIN lines : lines[i] \in {6, 9}

\* [i + 1 for i, line in enumerate(lines[0 .. k-1]) if line in (6, 9)]
RECURSIVE ChangingPositionsUpTo(_, _)
ChangingPositionsUpTo(lines, k) ==
    IF k = 0 THEN << >>
    ELSE ChangingPositionsUpTo(lines, k - 1)
         \o (IF lines[k] \in {6, 9} THEN << k >> ELSE << >>)

\* The positions counted from 0: i instead of i + 1.
ChangingLinePositions_ZeroBased(lines) ==
    [k \in 1..Len(ChangingPositionsUpTo(lines, Len(lines))) |->
        ChangingPositionsUpTo(lines, Len(lines))[k] - 1]

ChangingLinePositions(lines) == ChangingPositionsUpTo(lines, Len(lines))

cast_iching_hexagram(random_bytes, source_ref) ==
    IF Len(random_bytes) < 6
    THEN [state |-> "raised", exc |-> "ValueError"]
    ELSE
    LET lines == [i \in 1..6 |-> cast_yarrow_line(random_bytes[i])]
        transformed_lines == transform_changing_lines(lines)
    IN  [state |-> "returned",
         value |->
           [technique |-> "yarrow_stick",
            derived_from |-> source_ref,
            lines |-> lines,
            original_hexagram |-> lines_to_hexagram_number(lines).value,
            original_hexagram_bin |-> binary_to_string(lines_to_binary(lines)),
            original_hexagram_bin2dec |-> lines_to_binary(lines),
            resulting_hexagram |-> lines_to_hexagram_number(transformed_lines).value,
            resulting_hexagram_bin |-> binary_to_string(lines_to_binary(transformed_lines)),
            resulting_hexagram_bin2dec |-> lines_to_binary(transformed_lines),
            has_changing_lines |-> HasChangingLines(lines),
            changing_line_positions |-> ChangingLinePositions(lines)]]

\* ------------------------------------------------------------------------
\* The hexagram caster, one call at a time
\* ------------------------------------------------------------------------

Pending == [state |-> "pending"]

NoCall == [fn |-> "none"]

\* Optional[T]: None is the empty sequence, a value v is << v >>
None == << >>

Some(v) == << v >>

\* no call of build_unified_response under way
AsmIdle ==
    /\ pc = "idle"
    /\ sources = << >>
    /\ errors = << >>
    /\ all_bytes = << >>
    /\ lfd_data_bytes = None
    /\ anu_fallback = FALSE
    /\ asm_seed = None
    /\ derived = [iching |-> None, egg |-> None]
    /\ log = << >>

\* main() of extract_random_bytes.py has not been started
ExtIdle ==
    /\ ext_pc = "idle"
    /\ buf = << >>
    /\ sym12 = << >>
    /\ packed = << >>
    /\ extracted = << >>
    /\ files = << >>
    /\ exit_status = None

\* One byte on each side of every boundary of cast_yarrow_line is covered by
\* the calls of cast_yarrow_line itself (all of 0..255); the hexagram inputs
\* take one byte of each of the four line classes at each position.
ByteSamples == {15, 16, 96, 208}

LineValues == {6, 7, 8, 9}

RECURSIVE Repeat(_, _)
Repeat(x, n) == IF n = 0 THEN << >> ELSE << x >> \o Repeat(x, n - 1)

\* byte strings of 0 to 6 sampled bytes, and of 6 sampled bytes followed by
\* 1..MaxExtraBytes further bytes
HexagramInputs ==
    UNION { [1..n -> ByteSamples] : n \in 0..6 }
    \cup { head \o Repeat(255, extra) :
             head \in [1..6 -> ByteSamples], extra \in 1..MaxExtraBytes }

CastCalls ==
    { [fn |-> "cast_yarrow_line", arg |-> v] : v \in 0..255 }
    \cup { [fn |-> "lines_to_hexagram_number", arg |-> l] : l \in [1..6 -> LineValues] }
    \cup { [fn |-> "cast_iching_hexagram", arg |-> b] : b \in HexagramInputs }
    \cup { [fn |-> "lines_to_binary", arg |-> l] : l \in [1..6 -> LineValues] }

InitCast ==
    /\ call \in CastCalls
    /\ ret = Pending
    /\ rng = 0
    /\ baseline = NoCall
    /\ AsmIdle
    /\ ExtIdle

CastYarrowLine ==
    /\ call.fn = "cast_yarrow_line"
    /\ ret.state = "pending"
    /\ ret' = [state |-> "returned", value |-> cast_yarrow_line(call.arg)]
    /\ UNCHANGED <<call, rng, baseline, asmVars, extVars>>

LinesToHexagramNumber ==
    /\ call.fn = "lines_to_hexagram_number"
    /\ ret.state = "pending"
    /\ ret' = lines_to_hexagram_number(call.arg)
    /\ UNCHANGED <<call, rng, baseline, asmVars, extVars>>

CastIChingHexagram ==
    /\ call.fn = "cast_iching_hexagram"
    /\ ret.state = "pending"
    /\ ret' = cast_iching_hexagram(call.arg, "unknown")
    /\ UNCHANGED <<call, rng, baseline, asmVars, extVars>>

\* binary = lines_to_binary(lines), then binary_to_string(binary)
LinesToBinaryString ==
    /\ call.fn = "lines_to_binary"
    /\ ret.state = "pending"
    /\ ret' = [state |-> "returned",
               value |-> [binary |-> lines_to_binary(call.arg),
                          string |-> binary_to_string(lines_to_binary(call.arg))]]
    /\ UNCHANGED <<call, rng, baseline, asmVars, extVars>>

NextCast ==
    \/ CastYarrowLine
    \/ LinesToHexagramNumber
    \/ CastIChingHexagram
    \/ LinesToBinaryString

SpecCast == InitCast /\ [][NextCast]_vars

\* ------------------------------------------------------------------------
\* fetchers.py: compute_monobit_ratio
\* ------------------------------------------------------------------------

\* the default of the parameter max_bytes
DefaultMaxBytes == 1024

Min(a, b) == IF a <= b THEN a ELSE b

\* data[:n]
Take(data, n) == SubSeq(data, 1, Min(Len(data), n))

\* bin(b).count('1')
RECURSIVE PopCount(_)
PopCount(b) == IF b = 0 THEN 0 ELSE (b % 2) + PopCount(b \div 2)

\* sum(bin(b).count('1') for b in sample[lo-1 .. hi-1]), by halves
RECURSIVE OnesIn(_, _, _)
OnesIn(sample, lo, hi) ==
    IF lo > hi THEN 0
    ELSE IF lo = hi THEN PopCount(sample[lo])
    ELSE LET mid == (lo + hi) \div 2
         IN  OnesIn(sample, lo, mid) + OnesIn(sample, mid + 1, hi)

\* A float result ones / total_bits is kept as the fraction [num, den]: the
\* division rounds correctly, so it is exact whenever the quotient is a
\* binary fraction (0, 1/2, 1) and it never leaves [0, 1].  0.0 is 0/1.
Ratio(num, den) == [num |-> num, den |-> den]

\* The whole buffer counted: sample = data, not data[:max_bytes].
compute_monobit_ratio_NoTruncation(data, max_bytes) ==
    IF Len(data) = 0 THEN Ratio(0, 1)
    ELSE Ratio(OnesIn(data, 1, Len(data)), Len(data) * 8)

compute_monobit_ratio(data, max_bytes) ==
    LET sample == Take(data, max_bytes) IN
    IF Len(sample) = 0 THEN Ratio(0, 1)
    ELSE LET ones == OnesIn(sample, 1, Len(sample))
             total_bits == Len(sample) * 8
         IN  IF total_bits > 0 THEN Ratio(ones, total_bits) ELSE Ratio(0, 1)

\* Buffers whose byte at offset i is `even` or `odd` by the parity of i inside
\* the sample and `tail` past it.
PatternBuffer(even, odd, tail, n) ==
    [i \in 1..n |->
        IF i > DefaultMaxBytes THEN tail
        ELSE IF (i - 1) % 2 = 0 THEN even ELSE odd]

MonoBytes == {0, 1, 170, 255}

MonoLengths == (0..4) \cup ((DefaultMaxBytes - 1)..(DefaultMaxBytes + MaxOverrun))

MonoCalls ==
    { [fn |-> "compute_monobit_ratio", arg |-> PatternBuffer(e, o, t, n)] :
        e \in MonoBytes, o \in MonoBytes, t \in MonoBytes, n \in MonoLengths }

InitMono ==
    /\ call \in MonoCalls
    /\ ret = Pending
    /\ rng = 0
    /\ baseline = NoCall
    /\ AsmIdle
    /\ ExtIdle

ComputeMonobitRatio ==
    /\ call.fn = "compute_monobit_ratio"
    /\ ret.state = "pending"
    /\ ret' = [state |-> "returned",
               value |-> compute_monobit_ratio(call.arg, DefaultMaxBytes)]
    /\ UNCHANGED <<call, rng, baseline, asmVars, extVars>>

NextMono == ComputeMonobitRatio

SpecMono == InitMono /\ [][NextMono]_vars

\* ------------------------------------------------------------------------
\* fetchers.py: read_curby_local, the Seeded Selector
\* ------------------------------------------------------------------------

Digits == <<"0", "1", "2", "3", "4", "5", "6", "7", "8", "9">>

IsDigit(c) == \E d \in DOMAIN Digits : Digits[d] = c

DigitValue(c) == (CHOOSE d \in DOMAIN Digits : Digits[d] = c) - 1

\* str.strip(): leading and trailing whitespace removed
RECURSIVE Strip(_)
Strip(s) ==
    IF Len(s) = 0 THEN s
    ELSE IF Head(s) = " " THEN Strip(Tail(s))
    ELSE IF s[Len(s)] = " " THEN Strip(SubSeq(s, 1, Len(s) - 1))
    ELSE s

\* A Python int that may exceed 32 bits (a record of the dataset) is kept as
\* sign and magnitude, the magnitude as hi * 65536 + lo with 0 <= lo < 65536.
BigInt(neg, hi, lo) == [neg |-> neg, hi |-> hi, lo |-> lo]

\* the value of a string of decimal digits: value * 10 + digit, digit by digit
RECURSIVE DigitsValue(_)
DigitsValue(s) ==
    IF Len(s) = 0 THEN BigInt(FALSE, 0, 0)
    ELSE LET rest == DigitsValue(SubSeq(s, 1, Len(s) - 1))
             low == rest.lo * 10 + DigitValue(s[Len(s)])
         IN  BigInt(FALSE, rest.hi * 10 + (low \div 65536), low % 65536)

\* int(text): optional whitespace around an optional sign and at least one
\* decimal digit; anything else raises ValueError
ParseInt(text) ==
    LET t == Strip(text)
        signed == Len(t) > 0 /\ Head(t) \in {"-", "+"}
        body == IF signed THEN Tail(t) ELSE t
        magnitude == DigitsValue(body)
    IN  IF Len(body) > 0 /\ \A i \in 1..Len(body) : IsDigit(body[i])
        THEN [state |-> "returned",
              value |-> BigInt(signed /\ Head(t) = "-"
                                 /\ (magnitude.hi > 0 \/ magnitude.lo > 0),
                               magnitude.hi, magnitude.lo)]
        ELSE [state |-> "raised", exc |-> "ValueError"]

\* The two bytes least significant first: byteorder='little'.
Uint16ToBytes_LittleEndian(v) ==
    IF v < 0 \/ v >= 65536
    THEN [state |-> "raised", exc |-> "OverflowError"]
    ELSE [state |-> "returned", value |-> << v % 256, v \div 256 >>]

\* v.to_bytes(2, byteorder='big'); OverflowError when v is negative or
\* does not fit
Uint16ToBytes(v) ==
    IF v < 0 \/ v >= 65536
    THEN [state |-> "raised", exc |-> "OverflowError"]
    ELSE [state |-> "returned", value |-> << v \div 256, v % 256 >>]

\* value.to_bytes(4, byteorder='big') of a BigInt
Uint32ToBytes(value) ==
    IF value.neg \/ value.hi >= 65536
    THEN [state |-> "raised", exc |-> "OverflowError"]
    ELSE [state |-> "returned",
          value |-> Uint16ToBytes(value.hi).value \o Uint16ToBytes(value.lo).value]

\* [line.strip() for line in f if line.strip()]
RECURSIVE NonBlankLines(_)
NonBlankLines(text_lines) ==
    IF Len(text_lines) = 0 THEN << >>
    ELSE (IF Len(Strip(Head(text_lines))) > 0 THEN << Strip(Head(text_lines)) >> ELSE << >>)
         \o NonBlankLines(Tail(text_lines))

\* random.seed(seed): the generator's state becomes a function of the seed
\* alone.  (A linear congruential stand-in for the Mersenne Twister: what the
\* program relies on is that seed() resets the state and randint() reads and
\* advances it.)
RandomSeed(seed) == (5 * seed + 3) % RngModulus

\* random.randint(a, b): [value, state after the draw]
RandomRandint(state, a, b) ==
    LET next == (5 * state + 1) % RngModulus
    IN  [value |-> a + (next % (b - a + 1)), state |-> next]

Failure(error) == [success |-> FALSE, error |-> error]

\* The draw made without seeding first: random.seed(seed) left out.
SelectIndex_Unseeded(seed, state, n) == RandomRandint(state, 0, n - 1)

\* random.seed(seed); selected_index = random.randint(0, len(lines) - 1)
SelectIndex(seed, state, n) == RandomRandint(RandomSeed(seed), 0, n - 1)

\* The result without the check `if value > 255`: the low byte is kept.
SelectedResult_TruncatesU8(csv_path, kind, lines, selected_index) ==
    LET parsed == ParseInt(lines[selected_index + 1])
        value == parsed.value
    IN  IF parsed.state = "raised" THEN Failure("invalid literal for int()")
        ELSE IF kind = "u32" THEN
            IF Uint32ToBytes(value).state = "raised"
            THEN Failure("int does not fit in 4 unsigned bytes")
            ELSE [success |-> TRUE,
                  data_uint32 |-> << value >>,
                  data_bytes |-> Uint32ToBytes(value).value,
                  selected_index |-> selected_index,
                  total_lines |-> Len(lines),
                  file_path |-> csv_path]
        ELSE IF kind = "u8" THEN
            [success |-> TRUE,
             data_uint8 |-> << value.lo % 256 >>,
             data_bytes |-> << value.lo % 256 >>,
             selected_index |-> selected_index,
             total_lines |-> Len(lines),
             file_path |-> csv_path]
        ELSE Failure("Unknown kind: {kind}")

\* Lines 210-243: value = int(lines[selected_index]) and the returned dict;
\* an exception of int(), to_bytes() or bytes() becomes the failure of
\* `except Exception`.
SelectedResult(csv_path, kind, lines, selected_index) ==
    LET parsed == ParseInt(lines[selected_index + 1])
        value == parsed.value
    IN  IF parsed.state = "raised" THEN Failure("invalid literal for int()")
        ELSE IF kind = "u32" THEN
            IF Uint32ToBytes(value).state = "raised"
            THEN Failure("int does not fit in 4 unsigned bytes")
            ELSE [success |-> TRUE,
                  data_uint32 |-> << value >>,
                  data_bytes |-> Uint32ToBytes(value).value,
                  selected_index |-> selected_index,
                  total_lines |-> Len(lines),
                  file_path |-> csv_path]
        ELSE IF kind = "u8" THEN
            IF ~value.neg /\ (value.hi > 0 \/ value.lo > 255)
            THEN Failure("Value {value} exceeds uint8 range")
            ELSE IF value.neg THEN Failure("bytes must be in range(0, 256)")
            ELSE [success |-> TRUE,
                  data_uint8 |-> << value.lo >>,
                  data_bytes |-> << value.lo >>,
                  selected_index |-> selected_index,
                  total_lines |-> Len(lines),
                  file_path |-> csv_path]
        ELSE Failure("Unknown kind: {kind}")

\* read_curby_local(csv_path, seed, kind) run on the file `file`
\* ([exists, lines]) with the generator in state `state`:
\* [result |-> the returned dict, rng |-> the generator's state afterwards]
read_curby_local(csv_path, seed, kind, file, state) ==
    IF ~file.exists
    THEN [result |-> Failure("File not found: {csv_path}"), rng |-> state]
    ELSE
    LET lines == NonBlankLines(file.lines) IN
    IF Len(lines) = 0
    THEN [result |-> Failure("CSV file {csv_path} is empty"), rng |-> state]
    ELSE
    LET drawn == SelectIndex(seed, state, Len(lines))
    IN  [result |-> SelectedResult(csv_path, kind, lines, drawn.value),
         rng |-> drawn.state]

\* ------------------------------------------------------------------------
\* The Seeded Selector, called again and again in one process
\* ------------------------------------------------------------------------

CurbyPath == "random_packed_u32be.csv"

Chars(n) == IF n < 10 THEN << Digits[n + 1] >>
            ELSE IF n < 100 THEN << Digits[(n \div 10) + 1], Digits[(n % 10) + 1] >>
            ELSE << Digits[(n \div 100) + 1], Digits[((n \div 10) % 10) + 1],
                    Digits[(n % 10) + 1] >>

DatasetFiles ==
    { [exists |-> FALSE, lines |-> << >>],
      [exists |-> TRUE,  lines |-> << << >>, << " ", " " >> >>],
      [exists |-> TRUE,  lines |-> << Chars(7) >>],
      [exists |-> TRUE,  lines |-> << Chars(300), << >>, Chars(256) >>],
      [exists |-> TRUE,
       lines |-> << << "4", "2", "9", "4", "9", "6", "7", "2", "9", "6" >> >>],
      [exists |-> TRUE,
       lines |-> << Chars(17), << >>, <<" ">> \o Chars(200) \o <<" ">>,
                    Chars(300), << " " >>, Chars(255) >>],
      [exists |-> TRUE,
       lines |-> << Chars(5), << "x", "1" >>,
                    << "4", "2", "9", "4", "9", "6", "7", "2", "9", "6" >>,
                    << "-", "3" >>, << >>,
                    << "4", "2", "9", "4", "9", "6", "7", "2", "9", "5" >> >>] }

Seeds == {0, 1, 52766}

Kinds == {"u32", "u8", "u16"}

InitSel ==
    /\ call = NoCall
    /\ ret = Pending
    /\ rng \in 0..(RngModulus - 1)
    /\ baseline = NoCall
    /\ AsmIdle
    /\ ExtIdle

\* One call of read_curby_local.  The first call of the process is kept as
\* the baseline that later calls are compared with.
ReadCurbyLocal ==
    \E file \in DatasetFiles, seed \in Seeds, kind \in Kinds :
        LET out == read_curby_local(CurbyPath, seed, kind, file, rng)
            args == [file |-> file, seed |-> seed, kind |-> kind]
        IN  /\ call' = [fn |-> "read_curby_local", arg |-> args]
            /\ ret' = [state |-> "returned", value |-> out.result]
            /\ rng' = out.rng
            /\ baseline' = IF baseline = NoCall
                           THEN [fn |-> "read_curby_local", arg |-> args,
                                 value |-> out.result]
                           ELSE baseline
            /\ UNCHANGED <<asmVars, extVars>>

NextSel == ReadCurbyLocal

SpecSel == InitSel /\ [][NextSel]_vars

\* ------------------------------------------------------------------------
\* Optional values, digests and encodings
\* ------------------------------------------------------------------------

\* `is not None` instead of the truth value: b'' counts as present
Truthy_IsNotNone(opt) == opt # None

\* Python's truth value of an Optional[bytes]: None and b'' are false
Truthy(opt) == opt # None /\ Len(opt[1]) > 0

\* hashlib.sha256(data).hexdigest(): the digest is kept symbolically, as the
\* digest of its preimage (collisions are not modelled)
compute_sha256(data) == [sha256_hexdigest_of |-> data]

HexDigits == <<"0", "1", "2", "3", "4", "5", "6", "7", "8", "9",
               "a", "b", "c", "d", "e", "f">>

UpperHexDigits == <<"0", "1", "2", "3", "4", "5", "6", "7", "8", "9",
                    "A", "B", "C", "D", "E", "F">>

IsHexDigit(c) ==
    \E d \in 1..16 : HexDigits[d] = c \/ UpperHexDigits[d] = c

HexDigitValue(c) ==
    (CHOOSE d \in 1..16 : HexDigits[d] = c \/ UpperHexDigits[d] = c) - 1

\* bytes.fromhex(s): whitespace before a byte is skipped, then two adjacent
\* hex digits of either case make the byte; anything else raises ValueError.
\* `at` holds the positions of the characters that are not whitespace.
FromHex(s) ==
    LET at == SelectSeq([i \in 1..Len(s) |-> i], LAMBDA i : s[i] # " ")
        pairs == Len(at) \div 2
    IN  IF /\ Len(at) % 2 = 0
           /\ \A k \in 1..pairs :
                /\ at[2 * k] = at[2 * k - 1] + 1
                /\ IsHexDigit(s[at[2 * k - 1]])
                /\ IsHexDigit(s[at[2 * k]])
        THEN [state |-> "returned",
              value |-> [k \in 1..pairs |->
                            16 * HexDigitValue(s[at[2 * k - 1]])
                               + HexDigitValue(s[at[2 * k]])]]
        ELSE [state |-> "raised", exc |-> "ValueError"]

\* base64.b64encode(data).decode().  A character of the base64 alphabet is
\* kept as its 6-bit index 0..63, and the padding character '=' as 64.
B64Encode(data) ==
    LET n == Len(data) IN
    [k \in 1..(4 * ((n + 2) \div 3)) |->
        LET g == 3 * ((k - 1) \div 4)
            r == (k - 1) % 4
            b1 == data[g + 1]
            b2 == IF g + 2 <= n THEN data[g + 2] ELSE 0
            b3 == IF g + 3 <= n THEN data[g + 3] ELSE 0
        IN  IF r = 0 THEN b1 \div 4
            ELSE IF r = 1 THEN (b1 % 4) * 16 + (b2 \div 16)
            ELSE IF r = 2 THEN (IF g + 2 <= n THEN (b2 % 16) * 4 + (b3 \div 64) ELSE 64)
            ELSE (IF g + 3 <= n THEN b3 % 64 ELSE 64)]

\* b''.join(v.to_bytes(2, byteorder='big') for v in values)
RECURSIVE JoinUint16(_)
JoinUint16(values) ==
    IF Len(values) = 0 THEN [state |-> "returned", value |-> << >>]
    ELSE LET first == Uint16ToBytes(Head(values))
             rest == JoinUint16(Tail(values))
         IN  IF first.state = "raised" THEN first
             ELSE IF rest.state = "raised" THEN rest
             ELSE [state |-> "returned", value |-> first.value \o rest.value]

\* ------------------------------------------------------------------------
\* fetchers.py: the network fetches and the ANU fallback
\* ------------------------------------------------------------------------

\* What session.get(...), raise_for_status() and response.json() come to, once
\* the session's retries are over: an exception, or the decoded JSON body.
HttpError(msg) == [kind |-> "exception", msg |-> msg]

HttpJson(body) == [kind |-> "json", body |-> body]

\* f"https://qrng.anu.edu.au/API/jsonI.php?length={length}&type=uint16": a
\* formatted string is the sequence of its pieces
AnuUrl(length) ==
    << "https://qrng.anu.edu.au/API/jsonI.php?length=", length, "&type=uint16" >>

\* f"https://lfdr.de/qrng_api/qrng?length={length_bytes}&format=HEX"
LfdUrl(length_bytes) ==
    << "https://lfdr.de/qrng_api/qrng?length=", length_bytes, "&format=HEX" >>

\* The fetch without the check len(values) != length.
fetch_anu_uint16_NoLengthCheck(length, http) ==
    IF http.kind = "exception" THEN [success |-> FALSE, error |-> http.msg]
    ELSE IF ~http.body.success
    THEN [success |-> FALSE, error |-> "ANU API returned success=false"]
    ELSE IF \E k \in 1..Len(http.body.data) :
                http.body.data[k] < 0 \/ http.body.data[k] >= 65536
    THEN [success |-> FALSE, error |-> "int too big to convert"]
    ELSE [success |-> TRUE,
          data_uint16 |-> http.body.data,
          data_bytes |-> [k \in 1..(2 * Len(http.body.data)) |->
                            IF k % 2 = 1 THEN http.body.data[(k + 1) \div 2] \div 256
                            ELSE http.body.data[k \div 2] % 256],
          url |-> AnuUrl(length)]

\* fetch_anu_uint16(length) when the request ends as `http`.  The body is
\* [success, data]: data.get("success"), data.get("data", []).
fetch_anu_uint16(length, http) ==
    IF http.kind = "exception" THEN Failure(http.msg)
    ELSE IF ~http.body.success THEN Failure("ANU API returned success=false")
    ELSE
    LET values == http.body.data IN
    IF Len(values) # length THEN Failure("Expected {length} values, got {len(values)}")
    ELSE IF JoinUint16(values).state = "raised"
    THEN Failure("int too big to convert")
    ELSE [success |-> TRUE,
          data_uint16 |-> values,
          data_bytes |-> JoinUint16(values).value,
          url |-> AnuUrl(length)]

\* fetch_lfd_hex(length_bytes) when the request ends as `http`.  The body is
\* [qrn]: data.get("qrn", "").
fetch_lfd_hex(length_bytes, http) ==
    IF http.kind = "exception" THEN Failure(http.msg)
    ELSE
    LET hex_string == http.body.qrn
        expected_chars == length_bytes * 2
    IN
    IF Len(hex_string) # expected_chars
    THEN Failure("Expected {expected_chars} hex chars, got {len(hex_string)}")
    ELSE IF FromHex(hex_string).state = "raised"
    THEN Failure("non-hexadecimal number found in fromhex() arg")
    ELSE [success |-> TRUE,
          data_hex |-> hex_string,
          data_bytes |-> FromHex(hex_string).value,
          data_uint8 |-> FromHex(hex_string).value,
          url |-> LfdUrl(length_bytes)]

\* The pair read least significant byte first: byteorder='little'.
FallbackValue_LittleEndian(quantum_bytes, i) ==
    quantum_bytes[2 * i + 1] + 256 * quantum_bytes[2 * i + 2]

\* int.from_bytes(quantum_bytes[i*2:(i*2)+2], byteorder='big')
FallbackValue(quantum_bytes, i) == 256 * quantum_bytes[2 * i + 1] + quantum_bytes[2 * i + 2]

generate_fallback_uint16_from_quantum(quantum_bytes, length) ==
    IF Len(quantum_bytes) < length * 2
    THEN Failure("Insufficient quantum bytes for fallback")
    ELSE [success |-> TRUE,
          data_uint16 |-> [k \in 1..length |-> FallbackValue(quantum_bytes, k - 1)],
          data_bytes |-> Take(quantum_bytes, length * 2),
          url |-> << "locally_determined" >>]

\* ------------------------------------------------------------------------
\* models.py: the entities and their validators
\* ------------------------------------------------------------------------

SourceData(uint8, uint16, uint32, hex, bytes_b64) ==
    [uint8 |-> uint8, uint16 |-> uint16, uint32 |-> uint32, hex |-> hex,
     bytes_b64 |-> bytes_b64]

Techniques ==
    {"vacuum_fluctuation_optics", "quantum_photonics_IDQ",
     "quantum_photonics_IDQ_seeded", "sha3_extracted_quantum", "yarrow_stick"}

\* the field constraints of Source: the Literal types and count >= 0 (the
\* digest is symbolic and always a digest)
SourceValid(src) ==
    /\ src.method \in {"https-get", "file"}
    /\ src.technique \in Techniques
    /\ src.format_in \in {"uint8", "uint16", "uint32", "hex"}
    /\ src.encoding \in {"none", "hex", "base64"}
    /\ src.count >= 0

IsBinaryString(str, width) ==
    Len(str) = width /\ \A i \in 1..Len(str) : str[i] \in {"0", "1"}

\* the field constraints and validators of IChingDerived
IChingDerivedValid(d) ==
    /\ d.technique = "yarrow_stick"
    /\ Len(d.lines) = 6
    /\ \A i \in 1..Len(d.lines) : d.lines[i] \in {6, 7, 8, 9}
    /\ d.original_hexagram \in 1..64
    /\ d.resulting_hexagram \in 1..64
    /\ IsBinaryString(d.original_hexagram_bin, 6)
    /\ IsBinaryString(d.resulting_hexagram_bin, 6)
    /\ d.original_hexagram_bin2dec \in 0..63
    /\ d.resulting_hexagram_bin2dec \in 0..63

EggDerived(egg_result) ==
    [source |-> "global-mind.org",
     persec |-> egg_result.persec,
     persecz |-> egg_result.persecz,
     perseczcs |-> egg_result.perseczcs,
     stouffer |-> egg_result.stouffer]

\* ------------------------------------------------------------------------
\* assembler.py: build_unified_response, stage by stage
\* ------------------------------------------------------------------------

\* the defaults of the parameters anu_len and lfd_bytes
DefaultAnuLen == 6

DefaultLfdBytes == 64

\* The message alone: errors.append(str(e)).
ErrorString_MessageOnly(prefix, message) == << message >>

\* f"{prefix}{message}"
ErrorString(prefix, message) == << prefix, message >>

Event(name, ok, arg) == [event |-> name, ok |-> ok, arg |-> arg]

Raised(exc) == [state |-> "raised", exc |-> exc]

LfdSource(lfd_result, lfd_bytes) ==
    [id |-> "lfd",
     name |-> "LfD Laboratorium QRNG",
     endpoint |-> lfd_result.url,
     method |-> "https-get",
     technique |-> "quantum_photonics_IDQ",
     format_in |-> "hex",
     encoding |-> "hex",
     unit_bits |-> 8,
     count |-> lfd_bytes,
     data |-> SourceData(Some(lfd_result.data_uint8), None, None,
                         Some(lfd_result.data_hex),
                         Some(B64Encode(lfd_result.data_bytes))),
     transform |-> << "decode:hex" >>,
     sha256_hex |-> compute_sha256(lfd_result.data_bytes),
     fallback_used |-> FALSE]

AnuSource(anu_result, anu_len, fallback) ==
    [id |-> "anu",
     name |-> "ANU Quantum Random Numbers",
     endpoint |-> anu_result.url,
     method |-> "https-get",
     technique |-> IF fallback THEN "quantum_photonics_IDQ_seeded"
                   ELSE "vacuum_fluctuation_optics",
     format_in |-> "uint16",
     encoding |-> "none",
     unit_bits |-> 16,
     count |-> anu_len,
     data |-> SourceData(None, Some(anu_result.data_uint16), None, None,
                         Some(B64Encode(anu_result.data_bytes))),
     transform |-> IF fallback THEN << "derive:lfd[0..11]" >> ELSE << "none" >>,
     sha256_hex |-> compute_sha256(anu_result.data_bytes),
     fallback_used |-> fallback]

CurbySource(curby_result, curby_kind, curby_count) ==
    [id |-> "curby_local",
     name |-> "CURBy Local Quantum Data",
     endpoint |-> << "file://", curby_result.file_path >>,
     method |-> "file",
     technique |-> "sha3_extracted_quantum",
     format_in |-> IF curby_kind = "u32" THEN "uint32" ELSE "uint8",
     encoding |-> "none",
     unit_bits |-> IF curby_kind = "u32" THEN 32 ELSE 8,
     count |-> curby_count,
     data |-> SourceData(
                 IF curby_kind = "u8" THEN Some(curby_result.data_uint8) ELSE None,
                 None,
                 IF curby_kind = "u32" THEN Some(curby_result.data_uint32) ELSE None,
                 None,
                 Some(B64Encode(curby_result.data_bytes))),
     transform |-> << "packing:1->0,2->1(msb)", "extractor:sha3-256-block" >>,
     sha256_hex |-> compute_sha256(curby_result.data_bytes),
     fallback_used |-> FALSE]

\* n bytes start, start + step, ... (mod 256)
ByteRamp(start, step, n) == [k \in 1..n |-> (start + step * (k - 1)) % 256]

\* the two hex digits of every byte, in the given alphabet
HexString(data, digits) ==
    [k \in 1..(2 * Len(data)) |->
        IF k % 2 = 1 THEN digits[(data[(k + 1) \div 2] \div 16) + 1]
        ELSE digits[(data[k \div 2] % 16) + 1]]

\* How the LfD request for n bytes can end: a network error, n bytes in
\* lowercase hex, n bytes in uppercase hex, one byte too many, a character
\* that is no hex digit, 2n characters of which the first two are blank.
LfdOutcomes(n) ==
    { HttpError("ConnectionError"),
      HttpJson([qrn |-> HexString(ByteRamp(3, 17, n), HexDigits)]),
      HttpJson([qrn |-> HexString(ByteRamp(100, 5, n), UpperHexDigits)]),
      HttpJson([qrn |-> HexString(ByteRamp(3, 17, n + 1), HexDigits)]),
      HttpJson([qrn |-> IF n = 0 THEN << "g", "0" >>
                        ELSE << "g" >> \o Tail(HexString(ByteRamp(3, 17, n), HexDigits))]),
      HttpJson([qrn |-> IF n = 0 THEN << >>
                        ELSE << " ", " " >>
                             \o Tail(Tail(HexString(ByteRamp(3, 17, n), HexDigits)))]) }

Uint16Ramp(n) == [k \in 1..n |-> (52766 + 7919 * (k - 1)) % 65536]

\* How the ANU request for n values can end: a network error, success=false,
\* n values, one value too many, a value that is no uint16, no values.
AnuOutcomes(n) ==
    { HttpError("ReadTimeout"),
      HttpJson([success |-> FALSE, data |-> << >>]),
      HttpJson([success |-> TRUE, data |-> Uint16Ramp(n)]),
      HttpJson([success |-> TRUE, data |-> Uint16Ramp(n + 1)]),
      HttpJson([success |-> TRUE,
                data |-> IF n = 0 THEN << >> ELSE << 65536 >> \o Tail(Uint16Ramp(n))]),
      HttpJson([success |-> TRUE, data |-> << >>]) }

Cfg == call.arg

\* Lines 74-80: the call begins.
\* The call begun at the ANU fetch, the LfD fetch left out.
Start_AnuFirst(cfg) ==
    /\ pc = "idle"
    /\ call' = [fn |-> "build_unified_response", arg |-> cfg]
    /\ ret' = Pending
    /\ pc' = "anu"
    /\ sources' = << >>
    /\ errors' = << >>
    /\ all_bytes' = << >>
    /\ UNCHANGED <<extVars, rng, baseline, lfd_data_bytes, anu_fallback, asm_seed, derived, log>>

Start(cfg) ==
    /\ pc = "idle"
    /\ call' = [fn |-> "build_unified_response", arg |-> cfg]
    /\ ret' = Pending
    /\ pc' = "lfd"
    /\ sources' = << >>
    /\ errors' = << >>
    /\ all_bytes' = << >>
    /\ UNCHANGED <<extVars, rng, baseline, lfd_data_bytes, anu_fallback, asm_seed, derived, log>>

\* Lines 82-111: the LfD fetch, whose request ends as `http`.
FetchLfd ==
    /\ pc = "lfd"
    /\ \E http \in LfdOutcomes(Cfg.lfd_bytes) :
       LET lfd_result == fetch_lfd_hex(Cfg.lfd_bytes, http) IN
       /\ log' = Append(log, Event("lfd", lfd_result.success, << >>))
       /\ IF lfd_result.success
          THEN /\ lfd_data_bytes' = Some(lfd_result.data_bytes)
               /\ all_bytes' = all_bytes \o lfd_result.data_bytes
               /\ sources' = Append(sources, LfdSource(lfd_result, Cfg.lfd_bytes))
               /\ errors' = errors
               /\ IF SourceValid(LfdSource(lfd_result, Cfg.lfd_bytes))
                  THEN pc' = "anu" /\ ret' = ret
                  ELSE pc' = "raised" /\ ret' = Raised("ValidationError")
          ELSE /\ lfd_data_bytes' = None
               /\ errors' = Append(errors, ErrorString("LfD QRNG: ", lfd_result.error))
               /\ pc' = "anu"
               /\ UNCHANGED <<all_bytes, sources, ret>>
    /\ UNCHANGED <<extVars, call, rng, baseline, anu_fallback, asm_seed, derived>>

\* the seed taken from the last value
SeedOf_LastValue(anu_result) == anu_result.data_uint16[Len(anu_result.data_uint16)]

\* Line 153: seed = anu_result["data_uint16"][0]
SeedOf(anu_result) == anu_result.data_uint16[1]

\* Lines 113-155: the ANU fetch, whose request ends as `http`, the fallback
\* to the LfD bytes, and the seed.
FetchAnu ==
    /\ pc = "anu"
    /\ \E http \in AnuOutcomes(Cfg.anu_len) :
       LET native == fetch_anu_uint16(Cfg.anu_len, http)
           use_fallback == ~native.success /\ Truthy(lfd_data_bytes)
           anu_result ==
               IF use_fallback
               THEN generate_fallback_uint16_from_quantum(lfd_data_bytes[1], Cfg.anu_len)
               ELSE native
           source == AnuSource(anu_result, Cfg.anu_len, use_fallback)
       IN
       /\ anu_fallback' = use_fallback
       /\ log' = log \o << Event("anu", native.success, << >>) >>
                     \o (IF use_fallback
                         THEN << Event("anu_fallback", anu_result.success, << >>) >>
                         ELSE << >>)
       /\ errors' =
            IF use_fallback /\ ~anu_result.success
            THEN Append(errors, ErrorString("ANU QRNG (fallback): ", anu_result.error))
            ELSE IF ~use_fallback /\ ~native.success
            THEN Append(errors, ErrorString("ANU QRNG: ", native.error))
            ELSE errors
       /\ IF anu_result.success
          THEN /\ all_bytes' = all_bytes \o anu_result.data_bytes
               /\ sources' = Append(sources, source)
               /\ IF ~SourceValid(source)
                  THEN pc' = "raised" /\ ret' = Raised("ValidationError")
                       /\ asm_seed' = asm_seed
                  ELSE IF Len(anu_result.data_uint16) = 0
                  THEN pc' = "raised" /\ ret' = Raised("IndexError")
                       /\ asm_seed' = asm_seed
                  ELSE pc' = "curby" /\ ret' = ret
                       /\ asm_seed' = Some(SeedOf(anu_result))
          ELSE /\ asm_seed' = None
               /\ pc' = "curby"
               /\ UNCHANGED <<all_bytes, sources, ret>>
    /\ UNCHANGED <<extVars, call, rng, baseline, lfd_data_bytes, derived>>

\* Lines 157-194: the Seeded Selector on the dataset file `file`, if there
\* is a seed.
ReadCurby(file) ==
    /\ pc = "curby"
    /\ IF asm_seed # None
       THEN LET out == read_curby_local(Cfg.curby_path, asm_seed[1], Cfg.curby_kind,
                                        file, rng)
                curby_result == out.result
                source == CurbySource(curby_result, Cfg.curby_kind, Cfg.curby_count)
            IN  /\ rng' = out.rng
                /\ log' = Append(log, Event("selector", curby_result.success, asm_seed))
                /\ IF curby_result.success
                   THEN /\ all_bytes' = all_bytes \o curby_result.data_bytes
                        /\ sources' = Append(sources, source)
                        /\ errors' = errors
                        /\ IF SourceValid(source)
                           THEN pc' = "iching" /\ ret' = ret
                           ELSE pc' = "raised" /\ ret' = Raised("ValidationError")
                   ELSE /\ errors' = Append(errors,
                                ErrorString("CURBy local: ", curby_result.error))
                        /\ pc' = "iching"
                        /\ UNCHANGED <<all_bytes, sources, ret>>
       ELSE /\ errors' = Append(errors,
                    ErrorString("CURBy local: ", "No seed available (ANU fetch failed)"))
            /\ pc' = "iching"
            /\ UNCHANGED <<rng, log, all_bytes, sources, ret>>
    /\ UNCHANGED <<extVars, call, baseline, lfd_data_bytes, anu_fallback, asm_seed, derived>>

\* the first six bytes instead
IChingBytes_FirstSix(data) == SubSeq(data, 1, Min(Len(data), 6))

\* lfd_data_bytes[12:18]
IChingBytes(data) == SubSeq(data, 13, Min(Len(data), 18))

\* Lines 196-204: the I Ching derivation.
DeriveIChing ==
    /\ pc = "iching"
    /\ IF Cfg.include_iching /\ Truthy(lfd_data_bytes) /\ Len(lfd_data_bytes[1]) >= 18
       THEN LET iching_result ==
                    cast_iching_hexagram(IChingBytes(lfd_data_bytes[1]), "lfd[bytes 12..17]")
                ok == iching_result.state = "returned"
                        /\ IChingDerivedValid(iching_result.value)
            IN  /\ log' = Append(log, Event("iching", ok, << >>))
                /\ IF ok
                   THEN /\ derived' = [derived EXCEPT !.iching = Some(iching_result.value)]
                        /\ errors' = errors
                   ELSE /\ errors' = Append(errors,
                                ErrorString("I Ching derivation: ",
                                    IF iching_result.state = "raised"
                                    THEN iching_result.exc ELSE "ValidationError"))
                        /\ derived' = derived
       ELSE UNCHANGED <<log, derived, errors>>
    /\ pc' = "egg"
    /\ UNCHANGED <<extVars, call, ret, rng, baseline, sources, all_bytes, lfd_data_bytes,
                   anu_fallback, asm_seed>>

\* What the optional egg module comes to: not importable, get_eggdata()
\* raising, returning nothing, returning something that is no set of series,
\* or returning its four series.
EggOutcomes == {"unavailable", "exception", "empty", "malformed", "data"}

EggResult ==
    [persec |-> Some("persec"), persecz |-> Some("persecz"),
     perseczcs |-> Some("perseczcs"), stouffer |-> Some("stouffer")]

\* Lines 206-230: the egg data, if requested.
FetchEgg(outcome) ==
    /\ pc = "egg"
    /\ IF Cfg.include_egg
       THEN /\ log' = Append(log, Event("egg", outcome = "data", << >>))
            /\ IF outcome = "data"
               THEN /\ derived' = [derived EXCEPT !.egg = Some(EggDerived(EggResult))]
                    /\ errors' = errors
               ELSE /\ derived' = derived
                    /\ errors' = Append(errors,
                         ErrorString("Egg data: ",
                            CASE outcome = "unavailable" -> "Module not available"
                              [] outcome = "empty" -> "Failed to fetch data"
                              [] outcome = "exception" -> "{str(e)}"
                              [] outcome = "malformed" -> "ValidationError"))
       ELSE UNCHANGED <<log, derived, errors>>
    /\ pc' = "assemble"
    /\ UNCHANGED <<extVars, call, ret, rng, baseline, sources, all_bytes, lfd_data_bytes,
                   anu_fallback, asm_seed>>

UnifiedResponse(request, response_sources, response_derived, metadata) ==
    [version |-> "1.0", request |-> request, sources |-> response_sources,
     derived |-> response_derived, metadata |-> metadata]

\* The request info with success=True whatever was recorded.
RequestInfo_AlwaysSuccess(success, latency_ms, error_list) ==
    [request_id |-> "uuid4", timestamp |-> "utcnow", success |-> TRUE,
     latency_ms |-> latency_ms, errors |-> error_list]

\* request_id and timestamp are fresh values of no consequence here
RequestInfo(success, latency_ms, error_list) ==
    [request_id |-> "uuid4", timestamp |-> "utcnow", success |-> success,
     latency_ms |-> latency_ms, errors |-> error_list]

\* The metadata with the bytes of the last source left out of the count.
Metadata_FirstSourcesOnly(description, byte_len_total, monobit_ratio) ==
    [description |-> description,
     checks |-> [byte_len_total |-> IF byte_len_total > 4 THEN byte_len_total - 4
                                    ELSE byte_len_total,
                 monobit_ratio |-> monobit_ratio]]

Metadata(description, byte_len_total, monobit_ratio) ==
    [description |-> description,
     checks |-> [byte_len_total |-> byte_len_total, monobit_ratio |-> monobit_ratio]]

\* int((time.time() - start_time) * 1000) of a clock that does not run
\* backwards between the two readings
Latencies == {0, 1250}

\* Lines 232-259: the metadata, the request info (whose latency_ms must not be
\* negative) and the response.
Assemble ==
    /\ pc = "assemble"
    /\ \E latency_ms \in Latencies :
       LET monobit == IF Len(all_bytes) > 0
                      THEN Some(compute_monobit_ratio(all_bytes, DefaultMaxBytes))
                      ELSE None
           metadata == Metadata("Combined quantum randomness", Len(all_bytes), monobit)
           request == RequestInfo(Len(errors) = 0, latency_ms, errors)
       IN  IF latency_ms >= 0
           THEN /\ ret' = [state |-> "returned",
                           value |-> UnifiedResponse(request, sources, derived, metadata)]
                /\ pc' = "done"
           ELSE /\ ret' = Raised("ValidationError")
                /\ pc' = "raised"
    /\ UNCHANGED <<extVars, call, rng, baseline, sources, errors, all_bytes, lfd_data_bytes,
                   anu_fallback, asm_seed, derived, log>>

\* ------------------------------------------------------------------------
\* backward_compat.py: legacy_to_unified
\* ------------------------------------------------------------------------

\* A legacy payload is [sources |-> [source1_anu_qrng, source2_lfd_qrng,
\* source3_local_csv, source4_iching]], each entry None when the key is
\* absent and Some(record) when it is present.

LegacyAnuSource(s1, data_bytes) ==
    [id |-> "anu",
     name |-> "ANU Quantum Random Numbers",
     endpoint |-> s1.url,
     method |-> "https-get",
     technique |-> s1.generation_technique,
     format_in |-> "uint16",
     encoding |-> "none",
     unit_bits |-> 16,
     count |-> Len(s1.data),
     data |-> SourceData(None, Some(s1.data), None, None, Some(B64Encode(data_bytes))),
     transform |-> IF s1.fallback_used THEN << "derive:lfd[0..11]" >> ELSE << "none" >>,
     sha256_hex |-> compute_sha256(data_bytes),
     fallback_used |-> s1.fallback_used]

LegacyLfdSource(s2, data_bytes) ==
    [id |-> "lfd",
     name |-> "LfD Laboratorium QRNG",
     endpoint |-> s2.url,
     method |-> "https-get",
     technique |-> s2.generation_technique,
     format_in |-> "hex",
     encoding |-> "hex",
     unit_bits |-> 8,
     count |-> Len(data_bytes),
     data |-> SourceData(Some(data_bytes), None, None, Some(s2.data),
                         Some(B64Encode(data_bytes))),
     transform |-> << "decode:hex" >>,
     sha256_hex |-> compute_sha256(data_bytes),
     fallback_used |-> FALSE]

LegacyCurbySource(s3, data_bytes) ==
    [id |-> "curby_local",
     name |-> "CURBy Local Quantum Data",
     endpoint |-> << "file://", s3.file >>,
     method |-> "file",
     technique |-> s3.generation_technique,
     format_in |-> "uint32",
     encoding |-> "none",
     unit_bits |-> 32,
     count |-> 1,
     data |-> SourceData(None, None, Some(<< s3.data >>), None,
                         Some(B64Encode(data_bytes))),
     transform |-> << "packing:1->0,2->1(msb)", "extractor:sha3-256-block" >>,
     sha256_hex |-> compute_sha256(data_bytes),
     fallback_used |-> FALSE]

LegacyIChing(s4) ==
    [technique |-> "yarrow_stick",
     derived_from |-> s4.random_source,
     lines |-> s4.lines,
     original_hexagram |-> s4.original_hexagram,
     original_hexagram_bin |-> binary_to_string(s4.original_hexagram_binary),
     original_hexagram_bin2dec |-> s4.original_hexagram_binary,
     resulting_hexagram |-> s4.resulting_hexagram,
     resulting_hexagram_bin |-> binary_to_string(s4.resulting_hexagram_binary),
     resulting_hexagram_bin2dec |-> s4.resulting_hexagram_binary,
     has_changing_lines |-> s4.has_changing_lines,
     changing_line_positions |-> s4.changing_line_positions]

\* sources_list with the LfD entry appended before the ANU entry
LegacySourcesList_LfdFirst(first, second, third) == second \o first \o third

\* sources_list after the three blocks of lines 85, 116 and 145, each having
\* appended its source or nothing
LegacySourcesList(first, second, third) == first \o second \o third

\* legacy_to_unified(legacy_json): the four conversions in the order of the
\* code; the first exception ends the call.
legacy_to_unified(legacy_json) ==
    LET legacy_sources == legacy_json.sources
        s1 == legacy_sources.source1_anu_qrng
        s2 == legacy_sources.source2_lfd_qrng
        s3 == legacy_sources.source3_local_csv
        s4 == legacy_sources.source4_iching
        bytes1 == JoinUint16(s1[1].data)
        bytes2 == FromHex(s2[1].data)
        bytes3 == Uint32ToBytes(s3[1].data)
        has3 == s3 # None /\ s3[1].type = "uint32"
        source1 == LegacyAnuSource(s1[1], bytes1.value)
        source2 == LegacyLfdSource(s2[1], bytes2.value)
        source3 == LegacyCurbySource(s3[1], bytes3.value)
        iching == LegacyIChing(s4[1])
    IN
    IF s1 # None /\ bytes1.state = "raised" THEN Raised("OverflowError")
    ELSE IF s1 # None /\ ~SourceValid(source1) THEN Raised("ValidationError")
    ELSE IF s2 # None /\ bytes2.state = "raised" THEN Raised("ValueError")
    ELSE IF s2 # None /\ ~SourceValid(source2) THEN Raised("ValidationError")
    ELSE IF has3 /\ bytes3.state = "raised" THEN Raised("OverflowError")
    ELSE IF has3 /\ ~SourceValid(source3) THEN Raised("ValidationError")
    ELSE IF s4 # None /\ ~IChingDerivedValid(iching) THEN Raised("ValidationError")
    ELSE
    LET sources_list ==
            LegacySourcesList(IF s1 # None THEN << source1 >> ELSE << >>,
                              IF s2 # None THEN << source2 >> ELSE << >>,
                              IF has3 THEN << source3 >> ELSE << >>)
        legacy_bytes ==
            (IF s1 # None THEN bytes1.value ELSE << >>)
            \o (IF s2 # None THEN bytes2.value ELSE << >>)
            \o (IF has3 THEN bytes3.value ELSE << >>)
        legacy_derived == [iching |-> IF s4 # None THEN Some(iching) ELSE None,
                           egg |-> None]
    IN  [state |-> "returned",
         value |-> UnifiedResponse(
                       RequestInfo(TRUE, 0, << >>),
                       sources_list,
                       legacy_derived,
                       Metadata("Converted from legacy format", Len(legacy_bytes), None))]

\* One call of legacy_to_unified.
LegacyToUnified(legacy_json) ==
    /\ pc = "idle"
    /\ call' = [fn |-> "legacy_to_unified", arg |-> legacy_json]
    /\ ret' = legacy_to_unified(legacy_json)
    /\ pc' = IF legacy_to_unified(legacy_json).state = "returned" THEN "done" ELSE "raised"
    /\ UNCHANGED <<extVars, rng, baseline, sources, errors, all_bytes, lfd_data_bytes,
                   anu_fallback, asm_seed, derived, log>>

\* ------------------------------------------------------------------------
\* fetch_multi_source_random.py: the legacy pipeline
\* ------------------------------------------------------------------------

\* cast_iching_hexagram(random_bytes) of the legacy module; its
\* cast_yarrow_line, lines_to_binary, transform_changing_lines and
\* KING_WEN_SEQUENCE are those of iching_unified.py, line for line.
legacy_cast_iching_hexagram(random_bytes) ==
    IF Len(random_bytes) < 6
    THEN Raised("ValueError")
    ELSE
    LET lines == [i \in 1..6 |-> cast_yarrow_line(random_bytes[i])]
        transformed_lines == transform_changing_lines(lines)
    IN  [state |-> "returned",
         value |->
           [lines |-> lines,
            original_hexagram |-> lines_to_hexagram_number(lines).value,
            original_hexagram_binary |-> lines_to_binary(lines),
            original_hexagram_bin2dec |-> lines_to_binary(lines),
            resulting_hexagram |-> lines_to_hexagram_number(transformed_lines).value,
            resulting_hexagram_binary |-> lines_to_binary(transformed_lines),
            resulting_hexagram_bin2dec |-> lines_to_binary(transformed_lines),
            has_changing_lines |-> HasChangingLines(lines),
            changing_line_positions |-> ChangingLinePositions(lines)]]

\* int.from_bytes(lfd_bytes[i*2:(i*2)+2], byteorder='big')
LegacyFallbackValue(lfd_bytes, i) ==
    LET chunk == SubSeq(lfd_bytes, Min(Len(lfd_bytes), 2 * i) + 1,
                        Min(Len(lfd_bytes), 2 * i + 2))
    IN  IF Len(chunk) = 0 THEN 0
        ELSE IF Len(chunk) = 1 THEN chunk[1]
        ELSE 256 * chunk[1] + chunk[2]

\* Line 305
LegacyRandomSource == "source2_lfd_qrng (bytes 12-17)"

\* fetch_multi_source_random(csv_path) when the LfD request gives the string
\* lfd_hex, the ANU request gives native_anu (None when it fails or gives
\* fewer than 6 values) and the dataset selection gives selected_value.
fetch_multi_source_random(csv_path, lfd_hex, native_anu, selected_value) ==
    IF Len(lfd_hex) # 128 \/ FromHex(lfd_hex).state = "raised"
    THEN Raised("RuntimeError")
    ELSE
    LET lfd_bytes == FromHex(lfd_hex).value
        anu_fallback_used == native_anu = None
        anu_values == IF native_anu # None THEN native_anu[1]
                      ELSE [k \in 1..6 |-> LegacyFallbackValue(lfd_bytes, k - 1)]
        hexagram == legacy_cast_iching_hexagram(IChingBytes(lfd_bytes))
    IN
    IF hexagram.state = "raised" THEN Raised("RuntimeError")
    ELSE
    [state |-> "returned",
     value |->
       [sources |->
         [source1_anu_qrng |-> Some(
            [type |-> "uint16", length |-> 6, data |-> anu_values,
             url |-> IF anu_fallback_used THEN << "locally_determined" >>
                     ELSE AnuUrl(6),
             generation_technique |-> IF anu_fallback_used
                                      THEN "quantum_photonics_IDQ_seeded"
                                      ELSE "vacuum_fluctuation_optics",
             fallback_used |-> anu_fallback_used]),
          source2_lfd_qrng |-> Some(
            [type |-> "hex", length |-> 64, data |-> lfd_hex, url |-> LfdUrl(64),
             generation_technique |-> "quantum_photonics_IDQ"]),
          source3_local_csv |-> Some(
            [type |-> "uint32", seed |-> anu_values[1], data |-> selected_value,
             file |-> csv_path, generation_technique |-> "sha3_extracted_quantum"]),
          source4_iching |-> Some(
            [lines |-> hexagram.value.lines,
             original_hexagram |-> hexagram.value.original_hexagram,
             original_hexagram_binary |-> hexagram.value.original_hexagram_binary,
             original_hexagram_bin2dec |-> hexagram.value.original_hexagram_bin2dec,
             resulting_hexagram |-> hexagram.value.resulting_hexagram,
             resulting_hexagram_binary |-> hexagram.value.resulting_hexagram_binary,
             resulting_hexagram_bin2dec |-> hexagram.value.resulting_hexagram_bin2dec,
             has_changing_lines |-> hexagram.value.has_changing_lines,
             changing_line_positions |-> hexagram.value.changing_line_positions,
             random_source |-> LegacyRandomSource,
             generation_technique |-> "yarrow_stick"])]]]

\* The source with the given id in a list of sources, as an Optional.
SourceOf(source_list, id) ==
    LET found == SelectSeq(source_list, LAMBDA src : src.id = id)
    IN  IF Len(found) = 0 THEN None ELSE Some(found[1])

\* The legacy pipeline run on what a finished build_unified_response call
\* saw (the LfD string, the ANU values unless the fallback was used, the
\* selected dataset value), and legacy_to_unified applied to its output.
LegacyRun ==
    /\ pc = "done"
    /\ call.fn = "build_unified_response"
    /\ baseline = NoCall
    /\ Cfg.curby_kind = "u32"
    /\ SourceOf(sources, "lfd") # None
    /\ SourceOf(sources, "anu") # None
    /\ SourceOf(sources, "curby_local") # None
    /\ LET anu == SourceOf(sources, "anu")[1]
           legacy == fetch_multi_source_random(
                         Cfg.curby_path,
                         SourceOf(sources, "lfd")[1].data.hex[1],
                         IF anu.fallback_used \/ Len(anu.data.uint16[1]) < 6
                         THEN None ELSE anu.data.uint16,
                         SourceOf(sources, "curby_local")[1].data.uint32[1][1])
       IN  baseline' = [fn |-> "fetch_multi_source_random",
                        legacy |-> legacy,
                        unified |-> IF legacy.state = "returned"
                                    THEN legacy_to_unified(legacy.value)
                                    ELSE legacy]
    /\ UNCHANGED <<call, ret, rng, asmVars, extVars>>

\* ------------------------------------------------------------------------
\* The aggregation calls that are explored (Spec)
\* ------------------------------------------------------------------------

Config(anu_len, lfd_bytes, curby_kind, curby_count, include_iching, include_egg) ==
    [anu_len |-> anu_len, lfd_bytes |-> lfd_bytes, curby_kind |-> curby_kind,
     curby_path |-> CurbyPath, curby_count |-> curby_count,
     include_iching |-> include_iching, include_egg |-> include_egg]

\* The defaults, and configurations that leave them one parameter at a time:
\* LfD lengths around the 2*anu_len and 18 byte thresholds, ANU lengths from
\* 0 (not a valid configuration) to MaxAnuLen, the selector kinds, a negative
\* count (not a valid configuration), and the two optional derivations.
Configs ==
    { Config(DefaultAnuLen, n, "u32", 1, TRUE, FALSE) :
          n \in {0, 11, 12, 17, 18, DefaultLfdBytes} }
    \cup { Config(n, DefaultLfdBytes, "u32", 1, TRUE, FALSE) : n \in {0, 1, MaxAnuLen} }
    \cup { Config(1, 0, "u32", 1, TRUE, FALSE), Config(MaxAnuLen, 18, "u32", 1, TRUE, FALSE) }
    \cup { Config(DefaultAnuLen, DefaultMaxBytes - MaxOverrun, "u32", 1, FALSE, FALSE) }
    \cup { Config(DefaultAnuLen, DefaultLfdBytes, k, c, TRUE, FALSE) :
               k \in {"u8", "u16"}, c \in {1} }
    \cup { Config(DefaultAnuLen, DefaultLfdBytes, "u32", c, TRUE, FALSE) : c \in {-1, 0} }
    \cup { Config(DefaultAnuLen, DefaultLfdBytes, "u32", 1, i, e) :
               i \in BOOLEAN, e \in BOOLEAN }

ValidConfig(cfg) == cfg.anu_len >= 1 /\ cfg.lfd_bytes >= 0 /\ cfg.curby_count >= 0

LegacyHex == HexString(ByteRamp(230, 29, 18), HexDigits)

LegacyAnu ==
    { None,
      Some([data |-> Uint16Ramp(DefaultAnuLen), url |-> AnuUrl(DefaultAnuLen),
            generation_technique |-> "vacuum_fluctuation_optics",
            fallback_used |-> FALSE, sha256_hex |-> compute_sha256(<< >>)]),
      Some([data |-> << 59113, 1407 >>, url |-> << "locally_determined" >>,
            generation_technique |-> "quantum_photonics_IDQ_seeded",
            fallback_used |-> TRUE]),
      Some([data |-> << 65536 >>, url |-> AnuUrl(DefaultAnuLen),
            generation_technique |-> "vacuum_fluctuation_optics",
            fallback_used |-> FALSE]),
      Some([data |-> << 7 >>, url |-> AnuUrl(DefaultAnuLen),
            generation_technique |-> "mersenne_twister",
            fallback_used |-> FALSE]) }

LegacyLfd ==
    { None,
      Some([data |-> LegacyHex, url |-> LfdUrl(DefaultLfdBytes),
            generation_technique |-> "quantum_photonics_IDQ",
            sha256_hex |-> compute_sha256(<< 0 >>)]),
      Some([data |-> << "A", "b", " ", "0", "1" >>, url |-> LfdUrl(DefaultLfdBytes),
            generation_technique |-> "quantum_photonics_IDQ"]),
      Some([data |-> << "a", "b", "c" >>, url |-> LfdUrl(DefaultLfdBytes),
            generation_technique |-> "quantum_photonics_IDQ"]) }

LegacyCsv ==
    { None,
      Some([type |-> "uint32", data |-> BigInt(FALSE, 8058, 37417), file |-> CurbyPath,
            generation_technique |-> "sha3_extracted_quantum"]),
      Some([type |-> "uint8", data |-> BigInt(FALSE, 0, 200), file |-> CurbyPath,
            generation_technique |-> "sha3_extracted_quantum"]),
      Some([type |-> "uint32", data |-> BigInt(FALSE, 65536, 0), file |-> CurbyPath,
            generation_technique |-> "sha3_extracted_quantum"]) }

LegacyHexagram(lines, original_binary) ==
    [lines |-> lines,
     original_hexagram |-> 4, original_hexagram_binary |-> original_binary,
     resulting_hexagram |-> 18, resulting_hexagram_binary |-> 50,
     has_changing_lines |-> TRUE, changing_line_positions |-> << 4 >>,
     random_source |-> "source2_lfd_qrng (bytes 12-17)"]

LegacyIChingEntries ==
    { None,
      Some(LegacyHexagram(<< 7, 8, 8, 6, 7, 8 >>, 18)),
      Some(LegacyHexagram(<< 7, 8, 8, 5, 7, 8 >>, 18)),
      Some(LegacyHexagram(<< 7, 8, 8, 6, 7, 8 >>, 64)) }

LegacyPayloads ==
    { [sources |-> [source1_anu_qrng |-> s1, source2_lfd_qrng |-> s2,
                    source3_local_csv |-> s3, source4_iching |-> s4]] :
          s1 \in LegacyAnu, s2 \in LegacyLfd, s3 \in LegacyCsv, s4 \in LegacyIChingEntries }

\* The process before any call.  The generator's state is whatever the
\* interpreter seeded it with; no result of an aggregation call depends on it.
Init ==
    /\ call = NoCall
    /\ ret = Pending
    /\ rng = 0
    /\ baseline = NoCall
    /\ AsmIdle
    /\ ExtIdle

Next ==
    \/ \E cfg \in Configs : Start(cfg)
    \/ FetchLfd
    \/ FetchAnu
    \/ \E file \in DatasetFiles : ReadCurby(file)
    \/ DeriveIChing
    \/ \E outcome \in EggOutcomes : FetchEgg(outcome)
    \/ Assemble
    \/ \E legacy_json \in LegacyPayloads : LegacyToUnified(legacy_json)
    \/ LegacyRun

Spec == Init /\ [][Next]_vars

\* ------------------------------------------------------------------------
\* extract_random_bytes.py: the symbol extraction and the packing
\* ------------------------------------------------------------------------

\* The loop of extract_12_symbols_from_words from word offset i on:
\* for i in range(0, n - (n % 4), 4).
RECURSIVE ExtractWords(_, _, _)
ExtractWords(data, i, stop) ==
    IF i >= stop THEN << >>
    ELSE LET b0 == data[i + 1]
             b1 == data[i + 2]
         IN  (IF b0 \in {1, 2} THEN << b0 >> ELSE << >>)
             \o (IF b1 \in {1, 2} THEN << b1 >> ELSE << >>)
             \o ExtractWords(data, i + 4, stop)

\* The loop reading b2 and b3 of every word as well.
extract_12_symbols_from_words_AllFourBytes(data) ==
    SelectSeq(SubSeq(data, 1, Len(data) - (Len(data) % 4)), LAMBDA b : b \in {1, 2})

extract_12_symbols_from_words(data) ==
    LET n == Len(data) IN ExtractWords(data, 0, n - (n % 4))

\* The loop of pack_bits_from_12 from symbol k on, with the accumulator acc
\* holding nbits bits.
RECURSIVE PackLoop(_, _, _, _)
PackLoop(symbols, k, acc, nbits) ==
    IF k > Len(symbols) THEN << >>
    ELSE LET bit == IF symbols[k] = 1 THEN 0 ELSE 1
             shifted == (acc * 2) + bit
         IN  IF nbits + 1 = 8
             THEN << shifted >> \o PackLoop(symbols, k + 1, 0, 0)
             ELSE PackLoop(symbols, k + 1, shifted, nbits + 1)

\* The packing that flushes the accumulator of a trailing partial group.
pack_bits_from_12_FlushesPartial(symbols) ==
    LET full == PackLoop(SubSeq(symbols, 1, Len(symbols) - (Len(symbols) % 8)), 1, 0, 0)
        rest == SubSeq(symbols, Len(symbols) - (Len(symbols) % 8) + 1, Len(symbols))
    IN  IF Len(rest) = 0 THEN full
        ELSE full \o << 0 >>

pack_bits_from_12(symbols) == PackLoop(symbols, 1, 0, 0)

\* ------------------------------------------------------------------------
\* extract_random_bytes.py: the decoding layers, the extractor and main()
\* ------------------------------------------------------------------------

\* A buffer is [kind |-> "bytes", data |-> the bytes], or the zlib stream of
\* some bytes, [kind |-> "zlib", of |-> the bytes], or the base64 text of such
\* a stream, [kind |-> "b64zlib", of |-> the bytes].  The base64 text of plain
\* bytes is a buffer of kind "bytes", holding its ASCII characters.
Bytes(data) == [kind |-> "bytes", data |-> data]

\* the ASCII code of a base64 character (index 0..63, 64 for '=')
B64Ascii(c) ==
    IF c < 26 THEN 65 + c
    ELSE IF c < 52 THEN 97 + (c - 26)
    ELSE IF c < 62 THEN 48 + (c - 52)
    ELSE IF c = 62 THEN 43
    ELSE IF c = 63 THEN 47
    ELSE 61

IsB64Ascii(b) == \E c \in 0..63 : B64Ascii(c) = b

B64Index(b) == CHOOSE c \in 0..63 : B64Ascii(c) = b

\* bytes.strip(): leading and trailing ASCII whitespace removed
Whitespace == {9, 10, 11, 12, 13, 32}

RECURSIVE StripBytes(_)
StripBytes(data) ==
    IF Len(data) = 0 THEN data
    ELSE IF Head(data) \in Whitespace THEN StripBytes(Tail(data))
    ELSE IF data[Len(data)] \in Whitespace THEN StripBytes(SubSeq(data, 1, Len(data) - 1))
    ELSE data

\* read_data(path): the content of the file, stripped
read_data(file) ==
    IF file.kind = "bytes" THEN Bytes(StripBytes(file.data)) ELSE file

\* base64.b64decode(data, validate=True) succeeds: only characters of the
\* alphabet, then at most two '=', the length a multiple of 4
IsBase64Text(data) ==
    LET pad == IF Len(data) >= 2 /\ data[Len(data)] = 61 /\ data[Len(data) - 1] = 61 THEN 2
               ELSE IF Len(data) >= 1 /\ data[Len(data)] = 61 THEN 1
               ELSE 0
    IN  /\ Len(data) % 4 = 0
        /\ \A k \in 1..(Len(data) - pad) : IsB64Ascii(data[k])

Base64Decoded(data) ==
    LET groups == Len(data) \div 4
        pad == Cardinality({k \in 1..Len(data) : data[k] = 61})
    IN  [k \in 1..(3 * groups - pad) |->
            LET g == 4 * ((k - 1) \div 3)
                r == (k - 1) % 3
            IN  IF r = 0 THEN B64Index(data[g + 1]) * 4 + (B64Index(data[g + 2]) \div 16)
                ELSE IF r = 1 THEN (B64Index(data[g + 2]) % 16) * 16
                                     + (B64Index(data[g + 3]) \div 4)
                ELSE (B64Index(data[g + 3]) % 4) * 64 + B64Index(data[g + 4])]

\* maybe_base64_decode(buf): << decoded, True >> or << buf, False >>
maybe_base64_decode(buffer) ==
    IF buffer.kind = "b64zlib" THEN << [kind |-> "zlib", of |-> buffer.of], TRUE >>
    ELSE IF buffer.kind = "bytes" /\ IsBase64Text(buffer.data)
    THEN << Bytes(Base64Decoded(buffer.data)), TRUE >>
    ELSE << buffer, FALSE >>

\* maybe_zlib_decompress(buf): << decompressed, True >> or << buf, False >>
maybe_zlib_decompress(buffer) ==
    IF buffer.kind = "zlib" THEN << Bytes(buffer.of), TRUE >>
    ELSE << buffer, FALSE >>

\* the default of the parameter block of sha3_extract
DefaultBlock == 4096

\* sha3_extract(buf, block): one SHA3-256 digest of 32 bytes for every started
\* block; a digest is kept as the digest of its block
sha3_extract(data, block) ==
    [k \in 1..((Len(data) + block - 1) \div block) |->
        [sha3_256_digest_of |-> SubSeq(data, (k - 1) * block + 1, Min(Len(data), k * block))]]

\* len(extracted)
DigestBytes == 32

\* main(): the arguments are call.arg
Args == call.arg

File(path, content) == [path |-> path, content |-> content]

\* An exception that nothing catches ends the process with status 1.
Uncaught(exc) ==
    /\ ret' = Raised(exc)
    /\ exit_status' = Some(1)
    /\ ext_pc' = "exited"

\* Line 146: buf = read_data(args.input).
ReadData ==
    /\ call.fn = "main"
    /\ ext_pc = "idle"
    /\ IF Args.input = None
       THEN Uncaught("FileNotFoundError") /\ buf' = buf
       ELSE /\ buf' = read_data(Args.input[1])
            /\ ext_pc' = "decode"
            /\ UNCHANGED <<ret, exit_status>>
    /\ UNCHANGED <<call, rng, baseline, asmVars, sym12, packed, extracted, files>>

\* Lines 147-149: the two decoding layers, unless --raw.
Decode ==
    /\ ext_pc = "decode"
    /\ buf' = IF ~Args.raw
              THEN maybe_zlib_decompress(maybe_base64_decode(buf)[1])[1]
              ELSE buf
    /\ ext_pc' = "extract"
    /\ UNCHANGED <<call, ret, rng, baseline, asmVars, sym12, packed, extracted, files,
                   exit_status>>

\* Line 154: the message of the zero-symbols error
ZeroSymbolsMessage == "No {1,2} symbols found. Are you sure this is the expected format?"

\* the symbol stream without the check of lines 153-155
ExtractStage_NoEmptyCheck ==
    /\ ext_pc = "extract"
    /\ buf.kind = "bytes"
    /\ sym12' = extract_12_symbols_from_words(buf.data)
    /\ ext_pc' = "pack"
    /\ UNCHANGED <<call, ret, rng, baseline, asmVars, buf, packed, extracted, files,
                   exit_status>>

\* Lines 152-155: the symbol stream; sys.exit(1) when it is empty.
ExtractStage ==
    /\ ext_pc = "extract"
    /\ buf.kind = "bytes"
    /\ sym12' = extract_12_symbols_from_words(buf.data)
    /\ IF Len(extract_12_symbols_from_words(buf.data)) = 0
       THEN /\ ret' = [state |-> "exit", stderr |-> ZeroSymbolsMessage]
            /\ exit_status' = Some(1)
            /\ ext_pc' = "exited"
       ELSE /\ ext_pc' = "pack"
            /\ UNCHANGED <<ret, exit_status>>
    /\ UNCHANGED <<call, rng, baseline, asmVars, buf, packed, extracted, files>>

\* Lines 156-158: the packed bytes and their file.
PackStage ==
    /\ ext_pc = "pack"
    /\ packed' = pack_bits_from_12(sym12)
    /\ files' = Append(files, File(Args.packed_out, pack_bits_from_12(sym12)))
    /\ ext_pc' = "sha3"
    /\ UNCHANGED <<call, ret, rng, baseline, asmVars, buf, sym12, extracted, exit_status>>

\* Lines 160-162: the extracted bytes and their file.
Sha3Stage ==
    /\ ext_pc = "sha3"
    /\ extracted' = sha3_extract(packed, DefaultBlock)
    /\ files' = Append(files, File(Args.sha3_out, sha3_extract(packed, DefaultBlock)))
    /\ ext_pc' = "outputs"
    /\ UNCHANGED <<call, ret, rng, baseline, asmVars, buf, sym12, packed, exit_status>>

\* active = extracted if args.source == "sha3" else packed
Active == IF Args.source = "sha3" THEN extracted ELSE packed

\* len(active)
ActiveLen == IF Args.source = "sha3" THEN DigestBytes * Len(extracted) ELSE Len(packed)

\* Lines 165-196: the optional outputs, each a rendering of the active buffer.
OptionalOutputs ==
    /\ ext_pc = "outputs"
    /\ files' = files
         \o (IF Args.hex_out # None
             THEN << File(Args.hex_out[1], [hex_lines_of |-> Active]) >> ELSE << >>)
         \o (IF Args.u32csv_out # None
             THEN << File(Args.u32csv_out[1], [u32_csv_of |-> Active]) >> ELSE << >>)
         \o (IF Args.json_out # None
             THEN << File(Args.json_out[1], [json_payload_of |-> Active]) >> ELSE << >>)
    /\ ext_pc' = "summary"
    /\ UNCHANGED <<call, ret, rng, baseline, asmVars, buf, sym12, packed, extracted,
                   exit_status>>

\* Lines 198-204: the summary, which divides by total_bits = len(active) * 8.
Summary ==
    /\ ext_pc = "summary"
    /\ IF ActiveLen * 8 = 0
       THEN Uncaught("ZeroDivisionError")
       ELSE /\ ret' = [state |-> "returned", value |-> None]
            /\ exit_status' = Some(0)
            /\ ext_pc' = "exited"
    /\ UNCHANGED <<call, rng, baseline, asmVars, buf, sym12, packed, extracted, files>>

\* ------------------------------------------------------------------------
\* The calls of the extractor's functions that are explored (SpecExt)
\* ------------------------------------------------------------------------

\* The longest symbol stream packed: one full group and a partial one.
MaxSymbols == 10

\* The largest number of [1,2,0,0] words in a buffer.
MaxWords == 9

WordBytes == {0, 1, 2, 3}

Words == { << a, b, c, d >> : a \in WordBytes, b \in WordBytes,
                              c \in WordBytes, d \in WordBytes }

\* Buffers: any first word, then possibly a second word, then possibly the
\* bytes of an incomplete word; and buffers shorter than a word.
ExtractBuffers ==
    { w \o x \o t :
        w \in Words,
        x \in { << >>, << 1, 2, 0, 0 >>, << 2, 0, 1, 2 >>, << 3, 1, 2, 1 >> },
        t \in { << >>, << 1 >>, << 2, 1 >>, << 1, 2, 2 >> } }
    \cup { << >>, << 1 >>, << 2, 1 >>, << 1, 2, 2 >> }

\* the word [1,2,0,0] repeated count times
RECURSIVE RepeatedWord(_)
RepeatedWord(count) ==
    IF count = 0 THEN << >> ELSE << 1, 2, 0, 0 >> \o RepeatedWord(count - 1)

\* every sequence of 1s and 2s of the given length
RECURSIVE SymbolStreams(_)
SymbolStreams(len) ==
    IF len = 0 THEN { << >> }
    ELSE { Append(t, b) : t \in SymbolStreams(len - 1), b \in {1, 2} }

\* the base64 text of the bytes, as ASCII
B64Text(data) == [k \in 1..Len(B64Encode(data)) |-> B64Ascii(B64Encode(data)[k])]

\* The input files of main(): buffers of [1,2,0,0] words, an all-zero buffer,
\* buffers with symbols in single positions and an incomplete last word, each
\* as it is, as base64 text, as a zlib stream, as the base64 text of a zlib
\* stream, or followed by a newline; and no file at all.
RawInputs ==
    { RepeatedWord(count) : count \in 0..MaxWords }
    \cup { << 0, 0, 0, 0, 0, 0, 0, 0 >>, << 0, 0, 1, 2, 3, 3, 2, 1 >>,
           << 2, 3, 0, 0, 0, 1, 0, 0, 1, 2 >>, << 1, 2 >> }

InputFiles ==
    { None }
    \cup { Some(Bytes(d)) : d \in RawInputs }
    \cup { Some(Bytes(B64Text(d))) : d \in RawInputs }
    \cup { Some(Bytes(B64Text(d) \o << 10 >>)) : d \in RawInputs }
    \cup { Some([kind |-> "zlib", of |-> d]) : d \in RawInputs }
    \cup { Some([kind |-> "b64zlib", of |-> d]) : d \in RawInputs }

MainArgs(input, raw, source, extras) ==
    [input |-> input, raw |-> raw, source |-> source,
     packed_out |-> "random.bin", sha3_out |-> "random_sha3.bin",
     hex_out |-> IF extras THEN Some("random.hex") ELSE None,
     u32csv_out |-> IF extras THEN Some("random_u32.csv") ELSE None,
     json_out |-> IF extras THEN Some("random.json") ELSE None]

\* With --raw the input is read as it is, so it is a file of plain bytes.
MainCalls ==
    { [fn |-> "main", arg |-> MainArgs(input, raw, source, extras)] :
        input \in InputFiles, raw \in BOOLEAN, source \in {"sha3", "packed"},
        extras \in BOOLEAN }
    \ { c \in { [fn |-> "main", arg |-> MainArgs(input, TRUE, source, extras)] :
                    input \in InputFiles, source \in {"sha3", "packed"},
                    extras \in BOOLEAN } :
            c.arg.input # None /\ c.arg.input[1].kind # "bytes" }

ExtCalls ==
    { [fn |-> "extract_12_symbols_from_words", arg |-> b] : b \in ExtractBuffers }
    \cup { [fn |-> "extract_12_symbols_from_words", arg |-> RepeatedWord(count)] :
               count \in 0..MaxWords }
    \cup { [fn |-> "pack_bits_from_12", arg |-> t] :
               t \in UNION { SymbolStreams(len) : len \in 0..MaxSymbols } }
    \cup MainCalls

InitExt ==
    /\ call \in ExtCalls
    /\ ret = Pending
    /\ rng = 0
    /\ baseline = NoCall
    /\ AsmIdle
    /\ ExtIdle

ExtractSymbols ==
    /\ call.fn = "extract_12_symbols_from_words"
    /\ ret = Pending
    /\ ret' = [state |-> "returned", value |-> extract_12_symbols_from_words(call.arg)]
    /\ UNCHANGED <<call, rng, baseline, asmVars, extVars>>

PackBits ==
    /\ call.fn = "pack_bits_from_12"
    /\ ret = Pending
    /\ ret' = [state |-> "returned", value |-> pack_bits_from_12(call.arg)]
    /\ UNCHANGED <<call, rng, baseline, asmVars, extVars>>

\* A second run of main() over the same input, the first run's results kept
\* for comparison.
RunAgain ==
    /\ call.fn = "main"
    /\ ext_pc = "exited"
    /\ baseline = NoCall
    /\ baseline' = [fn |-> "main", arg |-> call.arg,
                    value |-> [ret |-> ret, sym12 |-> sym12, packed |-> packed,
                               files |-> files, exit_status |-> exit_status]]
    /\ ret' = Pending
    /\ ext_pc' = "idle"
    /\ buf' = << >>
    /\ sym12' = << >>
    /\ packed' = << >>
    /\ extracted' = << >>
    /\ files' = << >>
    /\ exit_status' = None
    /\ UNCHANGED <<call, rng, asmVars>>

NextExt ==
    \/ RunAgain
    \/ ExtractSymbols
    \/ PackBits
    \/ ReadData
    \/ Decode
    \/ ExtractStage
    \/ PackStage
    \/ Sha3Stage
    \/ OptionalOutputs
    \/ Summary

SpecExt == InitExt /\ [][NextExt]_vars

\* ------------------------------------------------------------------------
\* Properties of the hexagram caster (checked under SpecCast)
\* ------------------------------------------------------------------------

ReturnedFrom(fn) == call.fn = fn /\ ret.state = "returned"

\* C1: for every byte value v in 0..255 cast_yarrow_line(v) is in {6,7,8,9}:
\* 6 iff v < 16, 7 iff 16 <= v < 96, 8 iff 96 <= v < 208, 9 iff v >= 208; over
\* the 256 byte values the counts of 6/7/8/9 are exactly 16/80/112/48.
C1_YarrowLinePartition ==
    ReturnedFrom("cast_yarrow_line") =>
        LET v == call.arg
            Count(line) == Cardinality({w \in 0..255 : cast_yarrow_line(w) = line})
        IN  /\ ret.value \in {6, 7, 8, 9}
            /\ (ret.value = 6) <=> (v < 16)
            /\ (ret.value = 7) <=> (16 <= v /\ v < 96)
            /\ (ret.value = 8) <=> (96 <= v /\ v < 208)
            /\ (ret.value = 9) <=> (v >= 208)
            /\ Count(6) = 16 /\ Count(7) = 80 /\ Count(8) = 112 /\ Count(9) = 48

\* cast_yarrow_line has returned for the byte at the last boundary
C1_Witness == ReturnedFrom("cast_yarrow_line") /\ call.arg = 208 /\ ret.value = 9

\* C2: for every input of at least 6 bytes cast_iching_hexagram returns a
\* result with has_changing_lines = (some line is 6 or 9); when that flag is
\* false the original and the resulting hexagram agree in number and in
\* binary string.
C2_ChangingLinesFlag ==
    (call.fn = "cast_iching_hexagram" /\ Len(call.arg) >= 6 /\ ret.state # "pending") =>
        /\ ret.state = "returned"
        /\ ret.value.has_changing_lines
             = (\E i \in 1..6 : ret.value.lines[i] \in {6, 9})
        /\ ~ret.value.has_changing_lines =>
             /\ ret.value.original_hexagram = ret.value.resulting_hexagram
             /\ ret.value.original_hexagram_bin = ret.value.resulting_hexagram_bin

\* a hexagram of stable lines only, with Yang lines among them, has been cast
C2_Witness ==
    /\ ReturnedFrom("cast_iching_hexagram")
    /\ ~ret.value.has_changing_lines
    /\ \E i \in 1..6 : ret.value.lines[i] = 7

KingWenIsPermutation ==
    /\ Len(KING_WEN_SEQUENCE) = 64
    /\ \A n \in 1..64 :
         Cardinality({i \in DOMAIN KING_WEN_SEQUENCE : KING_WEN_SEQUENCE[i] = n}) = 1

\* the line of the same polarity: 6 <-> 8 (Yin), 7 <-> 9 (Yang)
SamePolarityTwin(line) ==
    CASE line = 6 -> 8 [] line = 8 -> 6 [] line = 7 -> 9 [] line = 9 -> 7

\* C3: KING_WEN_SEQUENCE has exactly 64 entries, a permutation of 1..64;
\* lines_to_hexagram_number indexes it with a value in 0..63, and its result
\* depends only on the Yang/Yin pattern of the six lines: exchanging 7 with 9
\* or 6 with 8 at any set of positions leaves it unchanged.
C3_KingWenLookup ==
    /\ KingWenIsPermutation
    /\ (call.fn = "lines_to_hexagram_number" /\ ret.state # "pending") =>
        /\ ret.state = "returned"
        /\ lines_to_binary(call.arg) \in 0..63
        /\ ret.value = KING_WEN_SEQUENCE[lines_to_binary(call.arg) + 1]
        /\ \A S \in SUBSET (1..6) :
             lines_to_hexagram_number(
                 [i \in 1..6 |-> IF i \in S THEN SamePolarityTwin(call.arg[i])
                                 ELSE call.arg[i]]) = ret

\* a lookup with old and young lines of both polarities has returned
C3_Witness ==
    /\ ReturnedFrom("lines_to_hexagram_number")
    /\ call.arg = <<6, 7, 8, 9, 7, 8>>
    /\ ret.value = 48

\* ------------------------------------------------------------------------
\* Properties of compute_monobit_ratio (checked under SpecMono)
\* ------------------------------------------------------------------------

\* the 1-bits of the first n bytes of data, counted bit position by bit position
OneBitsOfPrefix(data, n) ==
    Cardinality({ p \in (1..n) \X (0..7) : (data[p[1]] \div Shl1(p[2])) % 2 = 1 })

\* C10: compute_monobit_ratio(data) is the number of 1-bits in the first
\* min(len(data), 1024) bytes over 8 times that byte count: 0 for an all-0x00
\* buffer, 1 for a (non-empty) all-0xFF buffer, exactly 1/2 for an even-length
\* buffer alternating 0x00/0xFF, 0 without error for the empty buffer; bytes
\* past offset 1023 never influence it and it lies in [0, 1].
C10_MonobitRatio ==
    (call.fn = "compute_monobit_ratio" /\ ret.state # "pending") =>
        LET data == call.arg
            n == Min(Len(data), 1024)
            r == ret.value
        IN  /\ ret.state = "returned"
            /\ r.den > 0 /\ 0 <= r.num /\ r.num <= r.den
            /\ n > 0 => r.num * (8 * n) = OneBitsOfPrefix(data, n) * r.den
            /\ n = 0 => r.num = 0
            /\ (\A i \in 1..Len(data) : data[i] = 0) => r.num = 0
            /\ (n > 0 /\ \A i \in 1..Len(data) : data[i] = 255) => r.num = r.den
            /\ (/\ n > 0 /\ Len(data) % 2 = 0
                /\ \A i \in 1..Len(data) :
                     data[i] = (IF (i - 1) % 2 = 0 THEN 0 ELSE 255))
               => 2 * r.num = r.den
            /\ \A tail \in MonoBytes :
                 compute_monobit_ratio(
                     [i \in 1..Len(data) |-> IF i > 1024 THEN tail ELSE data[i]],
                     DefaultMaxBytes) = r

\* the ratio of a buffer longer than the sample, all-0x00 inside the sample
\* and 0xFF past it, has been computed
C10_Witness ==
    /\ ReturnedFrom("compute_monobit_ratio")
    /\ Len(call.arg) > 1024
    /\ call.arg[1024] = 0 /\ call.arg[1025] = 255
    /\ ret.value.num = 0

\* ------------------------------------------------------------------------
\* Properties of the Seeded Selector (checked under SpecSel)
\* ------------------------------------------------------------------------

\* the 1-based positions of the non-blank lines of a file, in order
NonBlankPositions(text_lines) ==
    { i \in 1..Len(text_lines) : \E j \in 1..Len(text_lines[i]) : text_lines[i][j] # " " }

\* the value a successful result carries
SelectedValue(result, kind) ==
    IF kind = "u32" THEN result.data_uint32[1]
    ELSE BigInt(FALSE, 0, result.data_uint8[1])

\* C9: read_curby_local is deterministic: a call with the same seed, kind and
\* dataset contents as an earlier call returns the same result
\* (selected_index and value), whatever the generator's state in between;
\* selected_index is in [0, n-1], n the number of non-blank lines, and value
\* is the integer parsed from the selected_index-th non-blank line.
C9_SelectorDeterministic ==
    (call.fn = "read_curby_local") =>
        /\ ret.state = "returned"
        /\ (baseline.fn = "read_curby_local" /\ baseline.arg = call.arg)
               => baseline.value = ret.value
        /\ ret.value.success =>
             LET lines == call.arg.file.lines
                 positions == NonBlankPositions(lines)
                 n == Cardinality(positions)
                 k == ret.value.selected_index
             IN  /\ k \in 0..(n - 1)
                 /\ ret.value.total_lines = n
                 /\ \E i \in positions :
                      /\ Cardinality({j \in positions : j < i}) = k
                      /\ ParseInt(lines[i]).state = "returned"
                      /\ ParseInt(lines[i]).value
                           = SelectedValue(ret.value, call.arg.kind)

\* a call repeats the baseline's arguments after the generator was left in
\* another state, and selects a line that follows a blank line
C9_Witness ==
    /\ call.fn = "read_curby_local"
    /\ baseline.fn = "read_curby_local" /\ baseline.arg = call.arg
    /\ ret.value.success
    /\ ret.value.selected_index >= 1
    /\ ret.value.total_lines = 4
    /\ rng # RandomSeed(call.arg.seed)

\* ------------------------------------------------------------------------
\* Properties of the aggregation engine and the legacy translator
\* (checked under Spec)
\* ------------------------------------------------------------------------

\* build_unified_response has returned its response
Built == pc = "done" /\ call.fn = "build_unified_response"

Response == ret.value

SourcesWithId(resp, id) == SelectSeq(resp.sources, LAMBDA src : src.id = id)

\* the stage `name` ran during the call and ended with outcome `ok`
Happened(name, ok) ==
    \E i \in 1..Len(log) : log[i].event = name /\ log[i].ok = ok

\* C4: in build_unified_response with anu_len = 6, when the ANU fetch fails
\* and the LfD fetch succeeds with 64 bytes b[0..63], the response has one ANU
\* source, with fallback_used = true, whose uint16 value i is
\* 256*b[2i] + b[2i+1] for i = 0..5, and the Seeded Selector is invoked, with
\* the first of those values as its seed.
C4_AnuFallbackFromLfd ==
    (/\ Built
     /\ Cfg.anu_len = 6
     /\ Happened("anu", FALSE)
     /\ Happened("lfd", TRUE)
     /\ Len(SourcesWithId(Response, "lfd")[1].data.uint8[1]) = 64)
    => LET b == SourcesWithId(Response, "lfd")[1].data.uint8[1]
           anu == SourcesWithId(Response, "anu")
       IN  /\ Len(anu) = 1
           /\ anu[1].fallback_used = TRUE
           /\ anu[1].data.uint16 = Some([i \in 1..6 |-> 256 * b[2 * i - 1] + b[2 * i]])
           /\ \E i \in 1..Len(log) : log[i].event = "selector"
           /\ \A i \in 1..Len(log) :
                log[i].event = "selector" => log[i].arg = << 256 * b[1] + b[2] >>

\* The ANU request timed out, the LfD bytes begin 03 14 25 36, and the
\* selector ran with the seed 0x0314 = 788.
C4_Witness ==
    /\ Built
    /\ Cfg.anu_len = 6
    /\ Happened("anu", FALSE)
    /\ Happened("lfd", TRUE)
    /\ Len(SourcesWithId(Response, "lfd")[1].data.uint8[1]) = 64
    /\ SourcesWithId(Response, "anu")[1].data.uint16[1][1] = 788
    /\ SourcesWithId(Response, "anu")[1].data.uint16[1][2] = 9526
    /\ \E i \in 1..Len(log) : log[i].event = "selector" /\ log[i].arg = << 788 >>

PairwiseDistinct(seq) ==
    \A i, j \in 1..Len(seq) : i # j => seq[i] # seq[j]

\* C5 as stated: when both the LfD fetch and the ANU fetch fail, success is
\* false, there is no I Ching derivation and the error list is exactly two
\* distinct error strings.
C5_ExactlyTwoErrors ==
    (Built /\ Happened("lfd", FALSE) /\ Happened("anu", FALSE))
    => /\ Response.request.success = FALSE
       /\ Response.derived.iching = None
       /\ Len(Response.request.errors) = 2
       /\ Response.request.errors[1] # Response.request.errors[2]

\* C5, amended: when both the LfD fetch and the ANU fetch fail, success is
\* false, there is no I Ching derivation, and the error list is the LfD error,
\* the ANU error, the Seeded Selector's "no seed available" error and, when
\* egg data was requested and not obtained, an egg error: three or four error
\* strings, pairwise distinct.
C5_BothFetchesFail ==
    (Built /\ Happened("lfd", FALSE) /\ Happened("anu", FALSE))
    => LET errs == Response.request.errors
           egg_failed == Cfg.include_egg /\ Happened("egg", FALSE)
       IN  /\ Response.request.success = FALSE
           /\ Response.derived.iching = None
           /\ Len(errs) = IF egg_failed THEN 4 ELSE 3
           /\ errs[1][1] = "LfD QRNG: "
           /\ errs[2][1] = "ANU QRNG: "
           /\ errs[3] = << "CURBy local: ", "No seed available (ANU fetch failed)" >>
           /\ egg_failed => errs[4][1] = "Egg data: "
           /\ PairwiseDistinct(errs)

\* Both requests failed with the same kind of message and three errors were
\* recorded.
C5_Witness ==
    /\ Built
    /\ Happened("lfd", FALSE)
    /\ Happened("anu", FALSE)
    /\ Len(Response.request.errors) = 3
    /\ Response.request.errors[1][2] = "ConnectionError"
    /\ Response.request.errors[2][2] = "ReadTimeout"
    /\ Response.request.success = FALSE

\* a stage failed and nothing made up for it: every failed stage but an ANU
\* fetch whose values the LfD fallback then supplied
UnrecoveredFailure(i) ==
    /\ ~log[i].ok
    /\ ~(log[i].event = "anu" /\ Happened("anu_fallback", TRUE))

\* C6 as stated: a returned response has success == (errors is empty), and
\* there is an error string iff a source fetch or a derivation failed during
\* the call.
C6_ErrorIffSomethingFailed ==
    (pc = "done")
    => /\ Response.request.success = (Response.request.errors = << >>)
       /\ (Response.request.errors # << >>) <=> (\E i \in 1..Len(log) : ~log[i].ok)

\* C6, amended: a returned response has success == (errors is empty), and
\* there is an error string iff a source fetch or a derivation failed during
\* the call, other than an ANU fetch whose failure the LfD fallback made up
\* for.
C6_SuccessIffNoErrors ==
    (pc = "done")
    => /\ Response.request.success = (Response.request.errors = << >>)
       /\ (Response.request.errors # << >>)
            <=> (\E i \in 1..Len(log) : UnrecoveredFailure(i))

\* The ANU fetch failed, the fallback supplied the values, and the response
\* reports success with no error.
C6_Witness ==
    /\ Built
    /\ Happened("anu", FALSE)
    /\ Happened("anu_fallback", TRUE)
    /\ Happened("selector", TRUE)
    /\ Response.request.errors = << >>
    /\ Response.request.success = TRUE
    /\ Len(Response.sources) = 3

\* the prefix of the error string that the failure of a stage is recorded with
ErrorPrefixOf(event) ==
    CASE event = "lfd" -> "LfD QRNG: "
      [] event = "anu" -> "ANU QRNG: "
      [] event = "anu_fallback" -> "ANU QRNG (fallback): "
      [] event = "selector" -> "CURBy local: "
      [] event = "iching" -> "I Ching derivation: "
      [] event = "egg" -> "Egg data: "

HasErrorFor(event) ==
    \E j \in 1..Len(Response.request.errors) :
        Response.request.errors[j][1] = ErrorPrefixOf(event)

B64Decode(str) ==
    LET groups == Len(str) \div 4
        padding == Cardinality({k \in 1..Len(str) : str[k] = 64})
    IN  [k \in 1..(3 * groups - padding) |->
            LET g == 4 * ((k - 1) \div 3)
                r == (k - 1) % 3
            IN  IF r = 0 THEN str[g + 1] * 4 + (str[g + 2] \div 16)
                ELSE IF r = 1 THEN (str[g + 2] % 16) * 16 + (str[g + 3] \div 4)
                ELSE (str[g + 3] % 4) * 64 + str[g + 4]]

\* the bytes of a hex string, whitespace set aside
HexPairs(str) ==
    LET t == SelectSeq(str, LAMBDA c : c # " ")
    IN  [k \in 1..(Len(t) \div 2) |->
            16 * HexDigitValue(t[2 * k - 1]) + HexDigitValue(t[2 * k])]

\* the bytes of the typed view that a source's format_in names
TypedViewBytes(src) ==
    CASE src.format_in = "uint16" ->
            [k \in 1..(2 * Len(src.data.uint16[1])) |->
                IF k % 2 = 1 THEN src.data.uint16[1][(k + 1) \div 2] \div 256
                ELSE src.data.uint16[1][k \div 2] % 256]
      [] src.format_in = "uint32" ->
            [k \in 1..(4 * Len(src.data.uint32[1])) |->
                LET v == src.data.uint32[1][((k - 1) \div 4) + 1]
                    r == (k - 1) % 4
                IN  IF r = 0 THEN v.hi \div 256
                    ELSE IF r = 1 THEN v.hi % 256
                    ELSE IF r = 2 THEN v.lo \div 256
                    ELSE v.lo % 256]
      [] src.format_in = "uint8" -> src.data.uint8[1]
      [] src.format_in = "hex" -> HexPairs(src.data.hex[1])

\* C8: for every source of a response from build_unified_response or
\* legacy_to_unified, sha256_hex is the digest of the bytes that bytes_b64
\* encodes, and those bytes are the serialization of the source's typed view
\* (uint16: 2 bytes big-endian each, uint32: 4 bytes big-endian each, hex and
\* uint8: one byte per element); a digest in the legacy input is not copied.
C8_DigestOfBackingBytes ==
    (pc = "done")
    => \A i \in 1..Len(Response.sources) :
         LET src == Response.sources[i]
             raw == B64Decode(src.data.bytes_b64[1])
         IN  /\ src.data.bytes_b64 # None
             /\ src.sha256_hex = [sha256_hexdigest_of |-> raw]
             /\ raw = TypedViewBytes(src)
             /\ src.format_in = "hex" => src.data.uint8 = Some(raw)

\* A translated legacy payload whose LfD entry carried a stale digest, and
\* whose ANU and dataset entries are packed big-endian.
C8_Witness ==
    /\ pc = "done"
    /\ call.fn = "legacy_to_unified"
    /\ Len(Response.sources) = 3
    /\ call.arg.sources.source1_anu_qrng # None
    /\ call.arg.sources.source2_lfd_qrng # None
    /\ "sha256_hex" \in DOMAIN call.arg.sources.source2_lfd_qrng[1]
    /\ call.arg.sources.source2_lfd_qrng[1].sha256_hex = compute_sha256(<< 0 >>)
    /\ Response.sources[1].sha256_hex = compute_sha256(<< 206, 30, 237, 13, 11, 252,
                                                         42, 235, 73, 218, 104, 201 >>)
    /\ Response.sources[2].sha256_hex # compute_sha256(<< 0 >>)
    /\ B64Decode(Response.sources[3].data.bytes_b64[1]) = << 31, 122, 146, 41 >>

\* ------------------------------------------------------------------------
\* Properties of the extractor (checked under SpecExt)
\* ------------------------------------------------------------------------

\* the 1-based positions of data that hold the first or second byte of a
\* complete 4-byte word
SymbolPositions(data) ==
    SelectSeq([p \in 1..Len(data) |-> p],
              LAMBDA p : (p - 1) % 4 \in {0, 1} /\ p <= 4 * (Len(data) \div 4))

\* C11: extract_12_symbols_from_words(buf) returns, in order, exactly the
\* bytes at offsets 4k and 4k+1 of the complete 4-byte words of buf whose value
\* is 1 or 2; offsets 4k+2 and 4k+3 and a trailing incomplete word never
\* contribute; every output byte is 1 or 2 and there are at most
\* 2*floor(len(buf)/4) of them.
C11_SymbolsFromWordPrefixes ==
    ReturnedFrom("extract_12_symbols_from_words") =>
        LET data == call.arg
            kept == SelectSeq(SymbolPositions(data), LAMBDA p : data[p] \in {1, 2})
        IN  /\ ret.value = [k \in 1..Len(kept) |-> data[kept[k]]]
            /\ \A k \in 1..Len(ret.value) : ret.value[k] \in {1, 2}
            /\ Len(ret.value) <= 2 * (Len(data) \div 4)

\* a buffer whose padding bytes and incomplete last word hold 1s and 2s that
\* are left out, and whose first word gives one symbol
C11_Witness ==
    /\ ReturnedFrom("extract_12_symbols_from_words")
    /\ call.arg = << 3, 1, 2, 1, 2, 0, 1, 2, 1, 2, 2 >>
    /\ ret.value = << 1, 2 >>

\* bit number `bit` (0 = least significant) of a byte
BitOf(byte, bit) == (byte \div (2 ^ bit)) % 2

PastExtraction ==
    /\ call.fn = "main"
    /\ Args.input # None
    /\ ext_pc \in {"pack", "sha3", "outputs", "summary", "exited"}

\* C13: when the decoded input buffer yields zero symbols (for example an
\* all-zero buffer), the pipeline ends with the zero-symbols error and exit
\* status 1 before packing, and none of its output files is written.
C13_ZeroSymbolsIsFatal ==
    (PastExtraction /\ Len(extract_12_symbols_from_words(buf.data)) = 0) =>
        /\ ext_pc = "exited"
        /\ exit_status = Some(1)
        /\ ret = [state |-> "exit", stderr |-> ZeroSymbolsMessage]
        /\ packed = << >> /\ extracted = << >>
        /\ files = << >>

\* the base64 text of eight zero bytes was decoded and main() has exited with
\* status 1, all output files having been asked for
C13_Witness ==
    /\ PastExtraction
    /\ ~Args.raw /\ Args.json_out # None
    /\ Args.input = Some(Bytes(B64Text(<< 0, 0, 0, 0, 0, 0, 0, 0 >>)))
    /\ buf = Bytes(<< 0, 0, 0, 0, 0, 0, 0, 0 >>)
    /\ exit_status = Some(1) /\ files = << >>

\* ------------------------------------------------------------------------
\* The binary string of a hexagram (checked under SpecCast)
\* ------------------------------------------------------------------------

\* C14: for six lines over {6,7,8,9}, binary_to_string(lines_to_binary(lines))
\* has exactly 6 characters, each '0' or '1', and its character at 0-based
\* position 5-i is '1' iff line i (0 = bottom) is 7 or 9; lines_to_binary
\* returns a value in 0..63.
C14_BinaryStringOfLines ==
    ReturnedFrom("lines_to_binary") =>
        /\ ret.value.binary \in 0..63
        /\ Len(ret.value.string) = 6
        /\ \A k \in 1..Len(ret.value.string) : ret.value.string[k] \in {"0", "1"}
        /\ \A i \in 0..5 :
               (ret.value.string[(5 - i) + 1] = "1") <=> (call.arg[i + 1] \in {7, 9})

\* the lines 7,8,8,6,7,8 (Yang at the bottom and at line 4) give 17, "010001"
C14_Witness ==
    /\ ReturnedFrom("lines_to_binary")
    /\ call.arg = << 7, 8, 8, 6, 7, 8 >>
    /\ ret.value = [binary |-> 17, string |-> << "0", "1", "0", "0", "0", "1" >>]

\* ------------------------------------------------------------------------
\* Properties of the legacy translator (checked under Spec)
\* ------------------------------------------------------------------------

Translated == call.fn = "legacy_to_unified" /\ pc \in {"done", "raised"}

LegacySources == call.arg.sources

\* The content of a legacy entry as the legacy format has it: uint16 values,
\* a string of hex digit pairs, one uint32 value, six lines with hexagram
\* numbers and 6-bit integers.
WellFormedAnu(s1) ==
    /\ \A i \in 1..Len(s1.data) : s1.data[i] \in 0..65535
    /\ s1.generation_technique
           \in {"vacuum_fluctuation_optics", "quantum_photonics_IDQ_seeded"}

WellFormedLfd(s2) ==
    /\ \A i \in 1..Len(s2.data) : s2.data[i] \in {"0", "1", "2", "3", "4", "5", "6",
                                   "7", "8", "9", "a", "b", "c", "d", "e", "f",
                                   "A", "B", "C", "D", "E", "F"}
    /\ Len(s2.data) % 2 = 0
    /\ s2.generation_technique = "quantum_photonics_IDQ"

WellFormedCsv(s3) ==
    /\ s3.type = "uint32"
    /\ ~s3.data.neg /\ s3.data.hi \in 0..65535 /\ s3.data.lo \in 0..65535
    /\ s3.generation_technique = "sha3_extracted_quantum"

WellFormedIChing(s4) ==
    /\ Len(s4.lines) = 6
    /\ \A i \in 1..Len(s4.lines) : s4.lines[i] \in {6, 7, 8, 9}
    /\ s4.original_hexagram \in 1..64 /\ s4.resulting_hexagram \in 1..64
    /\ s4.original_hexagram_binary \in 0..63 /\ s4.resulting_hexagram_binary \in 0..63

WellFormedPayload ==
    /\ LegacySources.source1_anu_qrng # None
           => WellFormedAnu(LegacySources.source1_anu_qrng[1])
    /\ LegacySources.source2_lfd_qrng # None
           => WellFormedLfd(LegacySources.source2_lfd_qrng[1])
    /\ LegacySources.source3_local_csv # None
           => WellFormedCsv(LegacySources.source3_local_csv[1])
    /\ LegacySources.source4_iching # None
           => WellFormedIChing(LegacySources.source4_iching[1])

\* the ids the present entries come to, in the order anu, lfd, curby_local
ExpectedIds ==
    (IF LegacySources.source1_anu_qrng # None THEN << "anu" >> ELSE << >>)
    \o (IF LegacySources.source2_lfd_qrng # None THEN << "lfd" >> ELSE << >>)
    \o (IF LegacySources.source3_local_csv # None THEN << "curby_local" >> ELSE << >>)

\* C15: for every subset of the four legacy entries present with well-formed
\* content, legacy_to_unified returns a response with request.success = true
\* and no errors, with exactly one Source per present entry among the first
\* three in the order anu, lfd, curby_local, and with derived.iching populated
\* iff source4_iching is present.
C15_EveryEntryIsOptional ==
    (Translated /\ WellFormedPayload) =>
        /\ ret.state = "returned"
        /\ Response.request.success = TRUE
        /\ Response.request.errors = << >>
        /\ [i \in 1..Len(Response.sources) |-> Response.sources[i].id] = ExpectedIds
        /\ (Response.derived.iching # None) <=> (LegacySources.source4_iching # None)

\* a payload with only source4_iching was translated: no sources, a hexagram
C15_Witness ==
    /\ Translated /\ WellFormedPayload
    /\ ExpectedIds = << >>
    /\ LegacySources.source4_iching # None
    /\ Response.sources = << >>
    /\ Response.derived.iching[1].lines = << 7, 8, 8, 6, 7, 8 >>
    /\ Response.request.success

\* ------------------------------------------------------------------------
\* The legacy pipeline against the forward pipeline (checked under Spec)
\* ------------------------------------------------------------------------

LegacyEntries == baseline.legacy.value.sources

Translation == baseline.unified.value

\* Both pipelines ran to their end on the same observations: the same ANU
\* values and fallback flag, the same LfD string, the same selected value
\* and a hexagram cast from the same bytes.
SameRun ==
    /\ Built
    /\ baseline.fn = "fetch_multi_source_random"
    /\ baseline.legacy.state = "returned"
    /\ baseline.unified.state = "returned"
    /\ Response.derived.iching # None
    /\ LegacyEntries.source1_anu_qrng[1].data = SourceOf(Response.sources, "anu")[1].data.uint16[1]
    /\ LegacyEntries.source1_anu_qrng[1].fallback_used
           = SourceOf(Response.sources, "anu")[1].fallback_used
    /\ LegacyEntries.source2_lfd_qrng[1].data = SourceOf(Response.sources, "lfd")[1].data.hex[1]
    /\ << LegacyEntries.source3_local_csv[1].data >>
           = SourceOf(Response.sources, "curby_local")[1].data.uint32[1]
    /\ LegacyEntries.source4_iching[1].lines = Response.derived.iching[1].lines

SameSources ==
    \A id \in {"anu", "lfd", "curby_local"} :
        SourceOf(Translation.sources, id) = SourceOf(Response.sources, id)

\* C16 as stated: for the same underlying run, each Source and the
\* IChingDerived that legacy_to_unified builds from the output of
\* fetch_multi_source_random equals, field for field, the entity that
\* build_unified_response builds.
C16_LegacyEntitiesEqualForward ==
    SameRun => (SameSources /\ Translation.derived.iching = Response.derived.iching)

\* build_unified_response was called with its default parameters
DefaultParameters ==
    /\ Cfg.anu_len = DefaultAnuLen /\ Cfg.lfd_bytes = DefaultLfdBytes
    /\ Cfg.curby_kind = "u32" /\ Cfg.curby_count = 1
    /\ Cfg.curby_path = CurbyPath

\* the record without its derived_from
WithoutDerivedFrom(d) == [f \in DOMAIN d \ {"derived_from"} |-> d[f]]

\* C16 (amended): for the same underlying run of build_unified_response with
\* its default parameters, on an LfD string of 128 hex digits, each Source
\* that legacy_to_unified builds from the output of fetch_multi_source_random
\* equals the forward Source field for field, and the IChingDerived equals
\* the forward one in every field but derived_from, which is
\* "source2_lfd_qrng (bytes 12-17)" against "lfd[bytes 12..17]".
C16_LegacyEntitiesEqualButDerivedFrom ==
    (SameRun /\ DefaultParameters
        /\ Len(SourceOf(Response.sources, "lfd")[1].data.uint8[1]) = DefaultLfdBytes) =>
        /\ SameSources
        /\ WithoutDerivedFrom(Translation.derived.iching[1])
               = WithoutDerivedFrom(Response.derived.iching[1])
        /\ Translation.derived.iching[1].derived_from = "source2_lfd_qrng (bytes 12-17)"
        /\ Response.derived.iching[1].derived_from = "lfd[bytes 12..17]"

\* both pipelines fell back to the LfD bytes for the ANU values, and the
\* translation has the three sources and the hexagram
C16_Witness ==
    /\ SameRun /\ DefaultParameters
    /\ Len(SourceOf(Response.sources, "lfd")[1].data.uint8[1]) = DefaultLfdBytes
    /\ SourceOf(Translation.sources, "anu")[1].fallback_used
    /\ SourceOf(Translation.sources, "anu")[1].data.uint16[1][1] = 256 * 3 + 20
    /\ Len(Translation.sources) = 3
    /\ Translation.derived.iching # None

\* ------------------------------------------------------------------------
\* The order of the stages of build_unified_response (checked under Spec)
\* ------------------------------------------------------------------------

\* the stages in the order LFD_PENDING, ANU_PENDING, CURBY_PENDING,
\* ICHING_PENDING, then the optional egg fetch, the assembly and DONE
StageRank(stage) ==
    CASE stage = "idle" -> 0
      [] stage = "lfd" -> 1
      [] stage = "anu" -> 2
      [] stage = "curby" -> 3
      [] stage = "iching" -> 4
      [] stage = "egg" -> 5
      [] stage = "assemble" -> 6
      [] stage = "done" -> 7
      [] stage = "raised" -> 8

EventRank(name) ==
    CASE name = "lfd" -> 1
      [] name = "anu" -> 2
      [] name = "anu_fallback" -> 3
      [] name = "selector" -> 4
      [] name = "iching" -> 5
      [] name = "egg" -> 6

\* the first position of the event in the log, 0 when it is not there
EventIndex(name) ==
    IF \E i \in 1..Len(log) : log[i].event = name
    THEN CHOOSE i \in 1..Len(log) :
             log[i].event = name /\ \A j \in 1..(i - 1) : log[j].event # name
    ELSE 0

\* what was done so far is in the order of the stages, each stage once, the
\* LfD fetch first and the ANU fetch second
StagesInOrder ==
    call.fn = "build_unified_response" =>
        /\ \A i, j \in 1..Len(log) : i < j => EventRank(log[i].event) < EventRank(log[j].event)
        /\ StageRank(pc) \in 2..7 => (Len(log) >= 1 /\ log[1].event = "lfd")
        /\ StageRank(pc) \in 3..7 => (Len(log) >= 2 /\ log[2].event = "anu")
        /\ EventIndex("anu_fallback") > 0 => EventIndex("lfd") \in 1..(EventIndex("anu_fallback") - 1)
        /\ EventIndex("iching") > 0 => EventIndex("lfd") \in 1..(EventIndex("iching") - 1)

\* a step of the call moves to the next stage, or ends the call by raising
NextStageOnly ==
    (call'.fn = "build_unified_response" /\ pc' # pc) =>
        \/ StageRank(pc') = StageRank(pc) + 1 /\ pc' # "raised"
        \/ pc' = "raised" /\ pc \notin {"idle", "done"}

\* C17: every call of build_unified_response passes the stages LfD fetch, ANU
\* fetch with the fallback decision, CURBy selection and I Ching derivation in
\* exactly that order, each at most once and none revisited, before it
\* returns; the fallback decision and the I Ching derivation come only after
\* the LfD fetch has resolved.
C17_StagesInOrder == [] StagesInOrder /\ [][NextStageOnly]_vars

\* a call has returned after the LfD fetch, the failed ANU fetch, the
\* fallback, the selection and the derivation, in that order
C17_Witness ==
    /\ Built
    /\ [i \in 1..Len(log) |-> log[i].event]
           = << "lfd", "anu", "anu_fallback", "selector", "iching" >>
    /\ ~log[2].ok /\ log[3].ok

\* ------------------------------------------------------------------------
\* The Seeded Selector within build_unified_response (checked under Spec)
\* ------------------------------------------------------------------------

SelectorEvents == SelectSeq(log, LAMBDA e : e.event = "selector")

CurbyErrors == SelectSeq(errors, LAMBDA e : e[1] = "CURBy local: ")

\* C18: in build_unified_response the Seeded Selector is invoked at most once,
\* only after the ANU stage has resolved and only when an ANU source, native
\* or fallback, was produced, with that source's first uint16 value as seed;
\* when no ANU source was produced the selector is not invoked, there is no
\* curby_local source and one 'CURBy local' error is recorded; when the
\* selector is invoked and fails only the curby_local source is left out and
\* the call does not raise but returns a response.
C18_SelectorAfterAnu ==
    call.fn = "build_unified_response" =>
        /\ Len(SelectorEvents) <= 1
        /\ Len(SelectorEvents) = 1 =>
               /\ EventIndex("anu") \in 1..(EventIndex("selector") - 1)
               /\ StageRank(pc) >= 4
               /\ SourceOf(sources, "anu") # None
               /\ SelectorEvents[1].arg
                      = << SourceOf(sources, "anu")[1].data.uint16[1][1] >>
        /\ (StageRank(pc) \in 4..7 /\ SourceOf(sources, "anu") = None) =>
               /\ Len(SelectorEvents) = 0
               /\ SourceOf(sources, "curby_local") = None
               /\ Len(CurbyErrors) = 1
        /\ Happened("selector", FALSE) =>
               /\ pc # "raised" /\ ret.state # "raised"
               /\ SourceOf(sources, "curby_local") = None
               /\ Len(CurbyErrors) = 1
               /\ Len(sources) = Len(SelectSeq(log, LAMBDA e :
                                        e.event \in {"lfd", "anu", "anu_fallback"} /\ e.ok))
               /\ pc = "done" => (ret.state = "returned" /\ Response.sources = sources)

\* the selector ran on the seed 3*256 + 20 of a fallback ANU source and
\* failed; the response has the LfD and the ANU source and the hexagram
C18_Witness ==
    /\ Built
    /\ Happened("anu_fallback", TRUE)
    /\ Happened("selector", FALSE)
    /\ SelectorEvents[1].arg = << 788 >>
    /\ [i \in 1..Len(Response.sources) |-> Response.sources[i].id] = << "lfd", "anu" >>
    /\ Response.derived.iching # None

\* ------------------------------------------------------------------------
\* The I Ching derivation within build_unified_response (checked under Spec)
\* ------------------------------------------------------------------------

\* the bytes of the LfD source of the response, none when it has no such source
LfdBytesOf(resp) ==
    IF SourceOf(resp.sources, "lfd") = None THEN << >>
    ELSE SourceOf(resp.sources, "lfd")[1].data.uint8[1]

\* C19: a response of build_unified_response contains derived.iching iff
\* include_iching was set and the LfD fetch succeeded with at least 18 bytes;
\* its six lines are then cast_yarrow_line of the LfD bytes 12, 13, 14, 15, 16,
\* 17 in that order, whatever the ANU and CURBy stages came to.
C19_IChingFromLfdBytes ==
    Built =>
        /\ (Response.derived.iching # None)
               <=> (/\ Cfg.include_iching
                    /\ Happened("lfd", TRUE)
                    /\ Len(LfdBytesOf(Response)) >= 18)
        /\ Response.derived.iching # None =>
               Response.derived.iching[1].lines
                   = [i \in 1..6 |-> cast_yarrow_line(LfdBytesOf(Response)[12 + i])]

\* a response with the hexagram of 18 LfD bytes and neither an ANU nor a
\* curby_local source, the ANU fetch and the fallback having failed
C19_Witness ==
    /\ Built
    /\ Response.derived.iching # None
    /\ Len(LfdBytesOf(Response)) = 18
    /\ Happened("anu", FALSE) /\ Happened("anu_fallback", FALSE)
    /\ [i \in 1..Len(Response.sources) |-> Response.sources[i].id] = << "lfd" >>
    /\ Response.derived.iching[1].lines = << 8, 9, 9, 6, 7, 7 >>

\* ------------------------------------------------------------------------
\* The LfD bytes of the fallback and of the hexagram (checked under Spec)
\* ------------------------------------------------------------------------

\* the LfD byte offsets a fallback ANU source was made from: the first
\* 2 * length bytes
FallbackOffsets(anu_source) == 0..(2 * Len(anu_source.data.uint16[1]) - 1)

\* the byte range a transform label names
LabelOffsets(label) == IF label = "derive:lfd[0..11]" THEN 0..11 ELSE {}

\* C20: for every anu_len and lfd_bytes, when a response holds a fallback ANU
\* source and an I Ching derivation, the LfD byte offsets 12..17 of the
\* hexagram are disjoint from the offsets the fallback consumed, and the
\* transform label of the ANU source names exactly the consumed range.
C20_FallbackDisjointFromIChing ==
    (/\ Built
     /\ SourceOf(Response.sources, "anu") # None
     /\ Response.derived.iching # None) =>
        LET anu == SourceOf(Response.sources, "anu")[1] IN
        anu.fallback_used =>
            /\ FallbackOffsets(anu) \cap 12..17 = {}
            /\ Len(anu.transform) = 1
            /\ LabelOffsets(anu.transform[1]) = FallbackOffsets(anu)

\* ------------------------------------------------------------------------
\* The integrity metadata of build_unified_response (checked under Spec)
\* ------------------------------------------------------------------------

\* the raw bytes of a source: what its bytes_b64 encodes
RawBytes(src) == B64Decode(src.data.bytes_b64[1])

\* the raw bytes of the source with the given id, none when it is absent
RawBytesOf(resp, id) ==
    IF SourceOf(resp.sources, id) = None THEN << >>
    ELSE RawBytes(SourceOf(resp.sources, id)[1])

RECURSIVE IsSubsequence(_, _)
IsSubsequence(s, t) ==
    IF Len(s) = 0 THEN TRUE
    ELSE IF Len(t) = 0 THEN FALSE
    ELSE IF Head(s) = Head(t) THEN IsSubsequence(Tail(s), Tail(t))
    ELSE IsSubsequence(s, Tail(t))

\* C21: in every response from build_unified_response the sources list holds
\* each of lfd, anu, curby_local at most once and in that order, and
\* metadata.checks.byte_len_total is the sum of the raw-byte lengths of
\* exactly the sources in the list.
C21_SourcesInFetchOrder ==
    Built =>
        /\ IsSubsequence([i \in 1..Len(Response.sources) |-> Response.sources[i].id],
                         << "lfd", "anu", "curby_local" >>)
        /\ Response.metadata.checks.byte_len_total
               = Len(RawBytesOf(Response, "lfd")) + Len(RawBytesOf(Response, "anu"))
                   + Len(RawBytesOf(Response, "curby_local"))

\* a response with the 64 LfD bytes and the 4 dataset bytes after a native
\* ANU fetch of 12 bytes: 80 bytes in three sources
C21_Witness ==
    /\ Built
    /\ [i \in 1..Len(Response.sources) |-> Response.sources[i].id]
           = << "lfd", "anu", "curby_local" >>
    /\ Happened("anu", TRUE)
    /\ Response.metadata.checks.byte_len_total = 80

\* the concatenation LfD bytes, ANU bytes, CURBy bytes of the sources present
SourceBytes(resp) ==
    RawBytesOf(resp, "lfd") \o RawBytesOf(resp, "anu") \o RawBytesOf(resp, "curby_local")

\* the reported ratio is that of the first 1024 bytes of the concatenation
RatioOfSample(resp) ==
    LET n == Min(Len(SourceBytes(resp)), 1024)
        r == resp.metadata.checks.monobit_ratio
    IN  n > 0 =>
           /\ r # None
           /\ r[1].den > 0
           /\ r[1].num * (8 * n) = OneBitsOfPrefix(SourceBytes(resp), n) * r[1].den

\* C22 as stated: the monobit_ratio of a response from build_unified_response
\* is the number of 1-bits over the number of bits of the first 1024 bytes of
\* the concatenation of the LfD, ANU and CURBy bytes of the sources present,
\* and it is 0 when that concatenation is empty.
C22_MonobitZeroWhenEmpty ==
    Built =>
        /\ RatioOfSample(Response)
        /\ Len(SourceBytes(Response)) = 0 =>
               /\ Response.metadata.checks.monobit_ratio # None
               /\ Response.metadata.checks.monobit_ratio[1].num = 0

\* C22 (amended): the monobit_ratio of a response from build_unified_response
\* is the number of 1-bits over the number of bits of the first 1024 bytes of
\* the concatenation of the LfD, ANU and CURBy bytes of the sources present;
\* when that concatenation is empty no ratio is reported (monobit_ratio is
\* None).
C22_MonobitOfConcatenation ==
    Built =>
        /\ RatioOfSample(Response)
        /\ Len(SourceBytes(Response)) = 0 => Response.metadata.checks.monobit_ratio = None

\* a response without any source byte, both fetches having failed
C22_Witness ==
    /\ Built
    /\ Happened("lfd", FALSE) /\ Happened("anu", FALSE)
    /\ Response.sources = << >>
    /\ Response.metadata.checks.byte_len_total = 0
    /\ Response.metadata.checks.monobit_ratio = None

\* ------------------------------------------------------------------------
\* fetchers.py: create_session_with_retry, the HTTP attempts of one fetch
\* ------------------------------------------------------------------------

\* Retry(total=3, ...): the retries one session.get may spend
RetryTotal == 3

\* status_forcelist=[500, 502, 503, 504]
StatusForcelist == {500, 502, 503, 504}

\* One HTTP attempt ends in a transport error (no response) or in a response;
\* the payload of a response is None when it is no JSON document.
TransportError(exc) == [kind |-> "error", exc |-> exc]

HttpResponse(status, payload) == [kind |-> "response", status |-> status, payload |-> payload]

\* A session that re-attempts after every error status, listed or not.
IsRetryable_AnyErrorStatus(attempt) ==
    attempt.kind = "error" \/ attempt.status >= 400

\* The adapter re-attempts a GET whose attempt ended without a response or
\* with a status of the forcelist.
IsRetryable(attempt) ==
    attempt.kind = "error" \/ attempt.status \in StatusForcelist

\* session.get(url, timeout=timeout); response.raise_for_status();
\* response.json(), after the given attempts: the exception caught by
\* `except Exception`, or the decoded body.
SessionOutcome(attempts) ==
    LET last == attempts[Len(attempts)] IN
    IF last.kind = "error" THEN HttpError(last.exc)
    ELSE IF IsRetryable(last) THEN HttpError("RetryError")
    ELSE IF last.status >= 400 THEN HttpError("HTTPError")
    ELSE IF last.payload = None THEN HttpError("JSONDecodeError")
    ELSE HttpJson(last.payload[1])

\* the JSON bodies among the ends of a request
JsonBodies(outcomes) == { h.body : h \in { o \in outcomes : o.kind = "json" } }

\* How one attempt of the call can end: connection refused, timeout, the
\* four listed statuses, two error statuses that are not listed, and status
\* 200 with a body that is no JSON or with each JSON body of the provider.
AttemptOutcomes(fn, length) ==
    { TransportError("ConnectionError"), TransportError("ReadTimeout") }
    \cup { HttpResponse(status, None) : status \in StatusForcelist \cup {404, 429} }
    \cup { HttpResponse(200, None) }
    \cup { HttpResponse(200, Some(body)) :
             body \in JsonBodies(IF fn = "fetch_anu_uint16"
                                 THEN AnuOutcomes(length) ELSE LfdOutcomes(length)) }

FetchLengths == {1, 2}

FetchCalls ==
    { [fn |-> fn, arg |-> length] :
        fn \in {"fetch_anu_uint16", "fetch_lfd_hex"}, length \in FetchLengths }

\* A fetch has created its session and is about to call session.get; log
\* holds the attempts made so far.
InitFetch ==
    /\ call \in FetchCalls
    /\ ret = Pending
    /\ rng = 0
    /\ baseline = NoCall
    /\ pc = "get"
    /\ sources = << >>
    /\ errors = << >>
    /\ all_bytes = << >>
    /\ lfd_data_bytes = None
    /\ anu_fallback = FALSE
    /\ asm_seed = None
    /\ derived = [iching |-> None, egg |-> None]
    /\ log = << >>
    /\ ExtIdle

\* One HTTP attempt.  A retryable end with retries left leads to another
\* attempt; any other end finishes session.get, and the fetch validates
\* and returns.
HttpAttempt ==
    \E attempt \in AttemptOutcomes(call.fn, call.arg) :
        /\ pc = "get"
        /\ log' = Append(log, attempt)
        /\ IF IsRetryable(attempt) /\ Len(log) < RetryTotal
           THEN /\ pc' = "get"
                /\ ret' = ret
           ELSE /\ pc' = "done"
                /\ ret' = [state |-> "returned",
                           value |-> IF call.fn = "fetch_anu_uint16"
                                     THEN fetch_anu_uint16(call.arg, SessionOutcome(log'))
                                     ELSE fetch_lfd_hex(call.arg, SessionOutcome(log'))]
        /\ UNCHANGED <<call, rng, baseline, sources, errors, all_bytes,
                       lfd_data_bytes, anu_fallback, asm_seed, derived, extVars>>

NextFetch == HttpAttempt

SpecFetch == InitFetch /\ [][NextFetch]_vars

\* a response whose body was received: neither a transport error nor a
\* status the adapter answers by another attempt or raise_for_status by an
\* exception
BodyReceived(attempt) == attempt.kind = "response" /\ attempt.status < 400

\* the received body fails validation: no JSON document, an ANU envelope
\* with success=false, an ANU element count other than length, an LfD hex
\* string of a length other than 2 * length_bytes
FailsValidation(attempt) ==
    \/ attempt.payload = None
    \/ /\ attempt.payload # None
       /\ IF call.fn = "fetch_anu_uint16"
          THEN \/ ~attempt.payload[1].success
               \/ Len(attempt.payload[1].data) # call.arg
          ELSE Len(attempt.payload[1].qrn) # 2 * call.arg

\* the attempts of the fetch so far are bounded and every attempt but the
\* last ended in a transient failure
AttemptsBounded ==
    /\ Len(log) <= 1 + 3
    /\ \A k \in 1..(Len(log) - 1) :
           \/ log[k].kind = "error"
           \/ log[k].status \in {500, 502, 503, 504}

\* a received body ends the fetch at once, as a failure when it is not valid
BodyEndsFetch ==
    \A k \in 1..Len(log) :
        BodyReceived(log[k]) =>
            /\ k = Len(log)
            /\ pc = "done"
            /\ ret.state = "returned"
            /\ (FailsValidation(log[k]) => ~ret.value.success)

\* a finished fetch makes no further attempt
NoAttemptAfterReturn == ret.state = "returned" => UNCHANGED log

AllValuesAbove(file, hi, lo) ==
    /\ file.exists
    /\ NonBlankPositions(file.lines) # {}
    /\ \A i \in NonBlankPositions(file.lines) :
           /\ ParseInt(file.lines[i]).state = "returned"
           /\ ~ParseInt(file.lines[i]).value.neg
           /\ \/ ParseInt(file.lines[i]).value.hi > hi
              \/ /\ ParseInt(file.lines[i]).value.hi = hi
                 /\ ParseInt(file.lines[i]).value.lo > lo

\* the step records a failure of the selector and nothing else: one more
\* error with the selector's prefix, no source and no byte added, nothing
\* raised
CurbyFailureOnly ==
    /\ Len(errors') = Len(errors) + 1
    /\ SubSeq(errors', 1, Len(errors)) = errors
    /\ errors'[Len(errors')][1] = "CURBy local: "
    /\ sources' = sources
    /\ all_bytes' = all_bytes
    /\ pc' = "iching"
    /\ ret' = ret

\* the step of build_unified_response that runs the selector on `file`
SelectorStepOn(file) == asm_seed # None /\ ReadCurby(file)

\* what one selector step on `file` does
SelectorFailuresIsolated(file) ==
    /\ log' = Append(log, Event("selector", Len(sources') > Len(sources), asm_seed))
    /\ SubSeq(sources', 1, Len(sources)) = sources
    /\ (pc' = "raised") => Len(sources') = Len(sources) + 1
    /\ ~file.exists =>
           /\ CurbyFailureOnly
           /\ errors'[Len(errors')][2] = "File not found: {csv_path}"
    /\ (file.exists /\ NonBlankPositions(file.lines) = {}) =>
           /\ CurbyFailureOnly
           /\ errors'[Len(errors')][2] # "File not found: {csv_path}"
    /\ (Cfg.curby_kind = "u8" /\ AllValuesAbove(file, 0, 255)) => CurbyFailureOnly
    /\ (Cfg.curby_kind = "u32" /\ AllValuesAbove(file, 65535, 65535)) => CurbyFailureOnly

\* C24: the selector step of build_unified_response calls read_curby_local
\* once and the call never raises; a missing dataset file and a dataset with
\* no non-blank line give two different failures; a dataset whose values
\* all exceed 255 with kind 'u8', or all exceed 4 bytes with kind 'u32',
\* gives a failure and no bytes; every such failure adds one error, no
\* curby_local source, and leaves the LfD and ANU sources as they were.
C24_SelectorFailuresIsolated ==
    [][\A file \in DatasetFiles : SelectorStepOn(file) => SelectorFailuresIsolated(file)]_vars

\* a response built after the selector found every value of the dataset
\* above 255 with kind 'u8': LfD and ANU are its sources
C24_Witness ==
    /\ Built
    /\ Cfg.curby_kind = "u8"
    /\ Happened("selector", FALSE)
    /\ \E i \in 1..Len(errors) :
           errors[i] = ErrorString("CURBy local: ", "Value {value} exceeds uint8 range")
    /\ Len(Response.sources) = 2
    /\ Response.sources[1].id = "lfd"
    /\ Response.sources[2].id = "anu"

\* ------------------------------------------------------------------------
\* The layout of the King-Wen table (checked under SpecCast)
\* ------------------------------------------------------------------------

\* the annotated row of the table that holds the hexagram number: row r is
\* the eight entries at the list indices 8r .. 8r + 7
RowOf(number) ==
    ((CHOOSE i \in DOMAIN KING_WEN_SEQUENCE : KING_WEN_SEQUENCE[i] = number) - 1) \div 8

RowEntries(r) == { KING_WEN_SEQUENCE[8 * r + k] : k \in 1..8 }

\* the line sequences with the bottom three lines of `lines`
SameLowerTrigram(lines) ==
    { SubSeq(lines, 1, 3) \o upper : upper \in [1..3 -> {7, 8}] }

\* C25: the lookup index has bit i set iff line i is Yang, line 0 the bottom
\* line, and the eight entries of an annotated row of KING_WEN_SEQUENCE (one
\* trigram below) are exactly the entries reached by the line sequences that
\* share the Yang/Yin pattern of their bottom three lines.
C25_RowIsLowerTrigram ==
    (ReturnedFrom("lines_to_hexagram_number") /\ ret.state = "returned") =>
        /\ \A i \in 0..5 :
               (call.arg[i + 1] \in {7, 9})
                   <=> (\E k \in DOMAIN KING_WEN_SEQUENCE :
                           /\ KING_WEN_SEQUENCE[k] = ret.value
                           /\ ((k - 1) \div (2 ^ i)) % 2 = 1)
        /\ RowEntries(RowOf(ret.value))
               = { lines_to_hexagram_number(l).value : l \in SameLowerTrigram(call.arg) }

\* ------------------------------------------------------------------------
\* Two aggregation calls in one process, each in its selector stage
\* (fetchers.py, read_curby_local): the statements of the two calls
\* interleave, and `random` is the generator of the module, one per process
\* ------------------------------------------------------------------------

Threads == {1, 2}

ConcSeeds == {0, 52766}

ConcCalls ==
    { [fn |-> "read_curby_local", arg |-> [file |-> file, seed |-> seed, kind |-> kind]] :
        file \in DatasetFiles, seed \in ConcSeeds, kind \in {"u32", "u8"} }

\* Each call has its seed (anu_result["data_uint16"][0]) and is about to
\* call read_curby_local; call, ret and pc hold one entry for each thread.
InitConc ==
    /\ call \in [Threads -> ConcCalls]
    /\ ret = [t \in Threads |-> Pending]
    /\ pc = [t \in Threads |-> "open"]
    /\ rng = 0
    /\ baseline = NoCall
    /\ sources = << >>
    /\ errors = << >>
    /\ all_bytes = << >>
    /\ lfd_data_bytes = None
    /\ anu_fallback = FALSE
    /\ asm_seed = None
    /\ derived = [iching |-> None, egg |-> None]
    /\ log = << >>
    /\ ExtIdle

ConcUnchanged ==
    UNCHANGED <<call, baseline, sources, errors, all_bytes, lfd_data_bytes,
                anu_fallback, asm_seed, derived, log, extVars>>

\* Lines 197-205: the file is opened and read; a missing file or one with
\* no non-blank line is the call's failure
OpenDataset(t) ==
    /\ pc[t] = "open"
    /\ LET file == call[t].arg.file IN
       IF ~file.exists \/ Len(NonBlankLines(file.lines)) = 0
       THEN /\ pc' = [pc EXCEPT ![t] = "done"]
            /\ ret' = [ret EXCEPT ![t] =
                         [state |-> "returned",
                          value |-> read_curby_local(CurbyPath, call[t].arg.seed,
                                                     call[t].arg.kind, file, rng).result]]
       ELSE /\ pc' = [pc EXCEPT ![t] = "seed"]
            /\ ret' = ret
    /\ rng' = rng
    /\ ConcUnchanged

\* Line 208: random.seed(seed)
SeedGenerator(t) ==
    /\ pc[t] = "seed"
    /\ rng' = RandomSeed(call[t].arg.seed)
    /\ pc' = [pc EXCEPT ![t] = "draw"]
    /\ ret' = ret
    /\ ConcUnchanged

\* Lines 209-243: random.randint(0, len(lines) - 1) on the generator as it
\* is now, and the result for the line drawn
DrawIndex(t) ==
    /\ pc[t] = "draw"
    /\ LET lines == NonBlankLines(call[t].arg.file.lines)
           drawn == RandomRandint(rng, 0, Len(lines) - 1)
       IN  /\ rng' = drawn.state
           /\ ret' = [ret EXCEPT ![t] =
                        [state |-> "returned",
                         value |-> SelectedResult(CurbyPath, call[t].arg.kind,
                                                  lines, drawn.value)]]
    /\ pc' = [pc EXCEPT ![t] = "done"]
    /\ ConcUnchanged

NextConc ==
    \E t \in Threads :
        \/ OpenDataset(t)
        \/ SeedGenerator(t)
        \/ DrawIndex(t)

SpecConc == InitConc /\ [][NextConc]_vars

\* C26: two aggregation calls that run concurrently share no mutable
\* state: the result of each call's Seeded Selector is the one the call
\* gets when it runs alone, a function of its own seed and dataset only.
C26_SelectorResultAsIfAlone ==
    \A t \in Threads :
        (pc[t] = "done") =>
            ret[t].value = read_curby_local(CurbyPath, call[t].arg.seed, call[t].arg.kind,
                                            call[t].arg.file, 0).result

\* ------------------------------------------------------------------------
\* The changing lines of a cast hexagram (checked under SpecCast)
\* ------------------------------------------------------------------------

\* the byte casts an old line: 6 below 16, 9 from 208 on
CastsOldYin(byte) == byte % 256 < 16

CastsOldYang(byte) == byte % 256 >= 208

\* C27: for every input of at least 6 bytes cast_iching_hexagram reports as
\* changing_line_positions the ascending 1-based positions p of 1..6 whose
\* line is 6 or 9; the 6-bit value of the resulting hexagram differs from
\* the original's in exactly the bits p - 1 of those positions (a 6 has
\* become Yang, a 9 Yin), and resulting_hexagram is the table entry at the
\* resulting value.
C27_ChangingLinePositions ==
    (call.fn = "cast_iching_hexagram" /\ Len(call.arg) >= 6 /\ ret.state # "pending") =>
        /\ ret.state = "returned"
        /\ LET positions == ret.value.changing_line_positions
               original == ret.value.original_hexagram_bin2dec
               resulting == ret.value.resulting_hexagram_bin2dec
           IN  /\ \A k \in 1..(Len(positions) - 1) : positions[k] < positions[k + 1]
               /\ { positions[k] : k \in 1..Len(positions) }
                    = { p \in 1..6 : ret.value.lines[p] \in {6, 9} }
               /\ \A p \in 1..6 :
                    /\ (ret.value.lines[p] = 6) <=> CastsOldYin(call.arg[p])
                    /\ (ret.value.lines[p] = 9) <=> CastsOldYang(call.arg[p])
                    /\ (BitOf(resulting, p - 1) # BitOf(original, p - 1))
                         <=> (ret.value.lines[p] \in {6, 9})
                    /\ (ret.value.lines[p] = 6) => BitOf(resulting, p - 1) = 1
                    /\ (ret.value.lines[p] = 9) => BitOf(resulting, p - 1) = 0
               /\ original \in 0..63 /\ resulting \in 0..63
               /\ ret.value.resulting_hexagram = KING_WEN_SEQUENCE[resulting + 1]

\* a hexagram with an old Yin at the bottom and an old Yang as fourth line
\* has been cast: 011010 becomes 010011
C27_Witness ==
    /\ ReturnedFrom("cast_iching_hexagram")
    /\ ret.state = "returned"
    /\ ret.value.lines = <<6, 7, 8, 9, 7, 8>>
    /\ ret.value.changing_line_positions = <<1, 4>>
    /\ ret.value.original_hexagram_bin2dec = 26
    /\ ret.value.resulting_hexagram_bin2dec = 19

\* ------------------------------------------------------------------------
\* The ANU source and its fallback (checked under Spec)
\* ------------------------------------------------------------------------

\* the response has an error string with the prefix
HasErrorWithPrefix(resp, prefix) ==
    \E i \in 1..Len(resp.request.errors) : resp.request.errors[i][1] = prefix

\* fallback_used on an ANU source iff the native fetch failed; then the LfD
\* source is there, the ANU bytes are the first 2 * anu_len LfD bytes and the
\* technique is the seeded one; otherwise the technique is the native one
AnuSourceTellsFallback ==
    \A i \in 1..Len(Response.sources) :
        LET anu == Response.sources[i] IN
        (anu.id = "anu") =>
            /\ anu.fallback_used = Happened("anu", FALSE)
            /\ anu.fallback_used =>
                 /\ Len(SourcesWithId(Response, "lfd")) = 1
                 /\ Len(RawBytesOf(Response, "lfd")) >= 2 * Cfg.anu_len
                 /\ RawBytes(anu) = SubSeq(RawBytesOf(Response, "lfd"), 1, 2 * Cfg.anu_len)
                 /\ anu.technique = "quantum_photonics_IDQ_seeded"
            /\ ~anu.fallback_used => anu.technique = "vacuum_fluctuation_optics"

\* the native ANU fetch failed and LfD succeeded with fewer than 2 * anu_len
\* bytes, at least `least` of them
FallbackShort(least) ==
    /\ Happened("anu", FALSE)
    /\ Len(SourcesWithId(Response, "lfd")) = 1
    /\ Len(RawBytesOf(Response, "lfd")) < 2 * Cfg.anu_len
    /\ Len(RawBytesOf(Response, "lfd")) >= least

\* no ANU source, no seed, the LfD source still there
NoAnuNoSeed ==
    /\ SourcesWithId(Response, "anu") = << >>
    /\ ~\E i \in 1..Len(log) : log[i].event = "selector"
    /\ HasErrorWithPrefix(Response, "CURBy local: ")
    /\ Len(SourcesWithId(Response, "lfd")) = 1

\* C28 as stated: in every response an ANU source has fallback_used = true
\* iff the native ANU fetch failed, with the LfD source present, the ANU
\* bytes the first 2 * anu_len LfD bytes and the seeded technique (the
\* native technique otherwise); and when the native fetch failed and LfD
\* succeeded with fewer than 2 * anu_len bytes there is no ANU source, no
\* seed, an ANU fallback error, and the LfD source stays.
C28_ShortLfdGivesFallbackError ==
    Built =>
        /\ AnuSourceTellsFallback
        /\ FallbackShort(0) =>
             /\ NoAnuNoSeed
             /\ HasErrorWithPrefix(Response, "ANU QRNG (fallback): ")

\* C28, amended: as stated, except that the ANU fallback error is recorded
\* when LfD succeeded with at least one byte and fewer than 2 * anu_len;
\* when LfD succeeded with zero bytes the fallback is not attempted and the
\* error recorded is the one of the native ANU fetch.
C28_ShortLfdGivesAnuError ==
    Built =>
        /\ AnuSourceTellsFallback
        /\ FallbackShort(0) => NoAnuNoSeed
        /\ FallbackShort(1) =>
             /\ HasErrorWithPrefix(Response, "ANU QRNG (fallback): ")
             /\ ~HasErrorWithPrefix(Response, "ANU QRNG: ")
        /\ (FallbackShort(0) /\ ~FallbackShort(1)) =>
             /\ HasErrorWithPrefix(Response, "ANU QRNG: ")
             /\ ~HasErrorWithPrefix(Response, "ANU QRNG (fallback): ")

\* a response after the ANU fetch failed and LfD gave 11 bytes for six
\* values: the fallback failed
C28_Witness ==
    /\ Built
    /\ Cfg.anu_len = 6
    /\ FallbackShort(1)
    /\ Len(RawBytesOf(Response, "lfd")) = 11
    /\ NoAnuNoSeed
    /\ HasErrorWithPrefix(Response, "ANU QRNG (fallback): ")

\* ------------------------------------------------------------------------
\* What a successful response holds (checked under Spec)
\* ------------------------------------------------------------------------

\* the ids of the sources of the response, in order
SourceIds(resp) == [i \in 1..Len(resp.sources) |-> resp.sources[i].id]

\* C29 as stated: request.success = true implies that the sources are
\* exactly lfd, anu, curby_local, that derived.iching is present whenever
\* include_iching was set and derived.egg whenever include_egg was set.
C29_SuccessHasEveryArtifact ==
    (Built /\ Response.request.success) =>
        /\ SourceIds(Response) = << "lfd", "anu", "curby_local" >>
        /\ Cfg.include_iching => Response.derived.iching # None
        /\ Cfg.include_egg => Response.derived.egg # None

\* C29, amended: request.success = true implies that the sources are
\* exactly lfd, anu, curby_local, that derived.iching is present whenever
\* include_iching was set and the LfD source has at least 18 bytes (it is
\* absent with fewer), and derived.egg whenever include_egg was set.
C29_SuccessHasEveryDerivableArtifact ==
    (Built /\ Response.request.success) =>
        /\ SourceIds(Response) = << "lfd", "anu", "curby_local" >>
        /\ Cfg.include_iching =>
             ((Response.derived.iching # None) <=> Len(RawBytesOf(Response, "lfd")) >= 18)
        /\ Cfg.include_egg => Response.derived.egg # None

\* a successful response to a request for a hexagram with 17 LfD bytes:
\* three sources and no hexagram
C29_Witness ==
    /\ Built
    /\ Response.request.success
    /\ Cfg.include_iching
    /\ Len(RawBytesOf(Response, "lfd")) = 17
    /\ Len(Response.sources) = 3
    /\ Response.derived.iching = None

\* ------------------------------------------------------------------------
\* The end of a run of the extraction pipeline (checked under SpecExt)
\* ------------------------------------------------------------------------

\* main() has ended after reading its input
MainEnded == call.fn = "main" /\ Args.input # None /\ ext_pc = "exited"

\* the file written to the path, if one was
WrittenTo(path) == SelectSeq(files, LAMBDA f : f.path = path)

\* C30: whenever the decoded input holds at least one symbol, 1 to 7
\* symbols included, the pipeline runs to completion: it writes the packed
\* output and the SHA3-extracted output (one 32-byte digest for every
\* started 4096-byte block of the packed bytes, none for no packed byte) and
\* exits normally; the zero-symbol case is its only error exit.
C30_OnlyZeroSymbolsFails ==
    /\ (call.fn = "main" /\ Args.input # None /\ Len(sym12) >= 1) =>
           ret.state # "raised"
    /\ MainEnded =>
        /\ (exit_status # Some(0)) <=> (Len(sym12) = 0)
        /\ Len(sym12) >= 1 =>
             /\ Len(WrittenTo(Args.packed_out)) = 1
             /\ WrittenTo(Args.packed_out)[1].content = pack_bits_from_12(sym12)
             /\ Len(WrittenTo(Args.sha3_out)) = 1
             /\ WrittenTo(Args.sha3_out)[1].content = extracted
             /\ Len(extracted) = (Len(packed) + 4095) \div 4096

====
